---------------------------- MODULE Spec2Model ----------------------------
(***************************************************************************)
(* A model of the platform integration layer of High Tide:                 *)
(*   - SecretStore (src/src/lib/secret_storage.py): the credential bundle, *)
(*     its JSON / UTF-16LE persistence in the secret-service and the       *)
(*     native-vault backend;                                               *)
(*   - WindowsMediaControls (src/src/lib/windows_integration.py): the      *)
(*     bridge to the system media transport controls.                      *)
(*                                                                         *)
(* Text is modelled as sequences of code points, bytes as sequences of     *)
(* numbers in 0..255.  Python values are records [t, s, items]: t is the   *)
(* Python type name, s the text of a str / int / datetime, items the       *)
(* insertion-ordered (key, value) pairs of a dict or the elements of a     *)
(* list.                                                                   *)
(***************************************************************************)
EXTENDS Integers, Sequences, FiniteSets, TLC

(***************************************************************************)
(* Python values                                                           *)
(***************************************************************************)
PyNone == [t |-> "NoneType", s |-> <<>>, items |-> <<>>]

PyStr(cs) == [t |-> "str", s |-> cs, items |-> <<>>]

PyInt(digits) == [t |-> "int", s |-> digits, items |-> <<>>]

PyBool(b) == [t |-> "bool", s |-> IF b THEN <<1>> ELSE <<0>>, items |-> <<>>]

PyDatetime(rendering) == [t |-> "datetime", s |-> rendering, items |-> <<>>]

PyDict(items) == [t |-> "dict", s |-> <<>>, items |-> items]

PyList(elems) == [t |-> "list", s |-> <<>>, items |-> elems]

\* {} : the empty dict of SecretStore.__init__ and of the reset paths.
EmptyDict == PyDict(<<>>)

\* str(x) of Python, as save() applies it to session.expiry_time.
Str(v) ==
    CASE v.t = "str" -> v
      [] v.t = "NoneType" -> PyStr(<<78, 111, 110, 101>>)          \* "None"
      [] v.t = "bool" -> IF v.s = <<1>> THEN PyStr(<<84, 114, 117, 101>>)
                                       ELSE PyStr(<<70, 97, 108, 115, 101>>)
      [] OTHER -> PyStr(v.s)             \* int: its digits; datetime: isoformat(" ")

\* key in d : for a dict, membership among its keys.
DictKeys(d) == {d.items[i][1] : i \in 1..Len(d.items)}

\* d[key] for a key that is present.
DictGet(d, k) == d.items[CHOOSE i \in 1..Len(d.items) : d.items[i][1] = k][2]

\* d[key] = v on an insertion-ordered dict: a present key keeps its place.
DictSet(items, k, v) ==
    IF \E i \in 1..Len(items) : items[i][1] = k
    THEN [i \in 1..Len(items) |-> IF items[i][1] = k THEN <<k, v>> ELSE items[i]]
    ELSE Append(items, <<k, v>>)

(***************************************************************************)
(* json.dumps (defaults: ensure_ascii, separators ", " and ": ")           *)
(***************************************************************************)
HexDigit(n) == IF n < 10 THEN 48 + n ELSE 87 + n

\* \uXXXX with four lower-case hex digits.
UnicodeEscape(c) ==
    <<92, 117, HexDigit((c \div 4096) % 16), HexDigit((c \div 256) % 16),
      HexDigit((c \div 16) % 16), HexDigit(c % 16)>>

\* An escaper that copies every character as it is.
EscapeCharRaw(c) == <<c>>

\* One character of a JSON string: everything outside " ".."~", the quote and
\* the backslash are escaped.
EscapeChar(c) ==
    CASE c = 34 -> <<92, 34>>
      [] c = 92 -> <<92, 92>>
      [] c = 10 -> <<92, 110>>
      [] c = 13 -> <<92, 114>>
      [] c = 9  -> <<92, 116>>
      [] c = 8  -> <<92, 98>>
      [] c = 12 -> <<92, 102>>
      [] c >= 32 /\ c <= 126 /\ c # 34 /\ c # 92 -> <<c>>
      [] c >= 65536 ->
            UnicodeEscape(55296 + ((c - 65536) \div 1024))
               \o UnicodeEscape(56320 + ((c - 65536) % 1024))
      [] OTHER -> UnicodeEscape(c)

RECURSIVE EscapeChars(_)
EscapeChars(cs) ==
    IF cs = <<>> THEN <<>> ELSE EscapeChar(Head(cs)) \o EscapeChars(Tail(cs))

EncodeString(cs) == <<34>> \o EscapeChars(cs) \o <<34>>

RECURSIVE DumpsValue(_), DumpsItems(_, _), DumpsElems(_, _)
DumpsValue(v) ==
    CASE v.t = "str" -> EncodeString(v.s)
      [] v.t = "NoneType" -> <<110, 117, 108, 108>>
      [] v.t = "bool" -> IF v.s = <<1>> THEN <<116, 114, 117, 101>>
                                       ELSE <<102, 97, 108, 115, 101>>
      [] v.t = "int" -> v.s
      [] v.t = "dict" -> <<123>> \o DumpsItems(v.items, 1) \o <<125>>
      [] v.t = "list" -> <<91>> \o DumpsElems(v.items, 1) \o <<93>>
      [] OTHER -> <<>>

DumpsItems(items, i) ==
    IF i > Len(items) THEN <<>>
    ELSE (IF i > 1 THEN <<44, 32>> ELSE <<>>)
            \o EncodeString(items[i][1]) \o <<58, 32>> \o DumpsValue(items[i][2])
            \o DumpsItems(items, i + 1)

DumpsElems(elems, i) ==
    IF i > Len(elems) THEN <<>>
    ELSE (IF i > 1 THEN <<44, 32>> ELSE <<>>)
            \o DumpsValue(elems[i]) \o DumpsElems(elems, i + 1)

Dumps(v) == DumpsValue(v)

(***************************************************************************)
(* json.loads.  A scan step returns [ok, v, pos]: pos is the index after   *)
(* the value.  Numbers are integers; a payload with a fraction or an       *)
(* exponent is outside the payloads of this model.                         *)
(***************************************************************************)
JsonError == [ok |-> FALSE, v |-> PyNone, pos |-> 0]

JsonOk(v, pos) == [ok |-> TRUE, v |-> v, pos |-> pos]

IsWhitespace(c) == c \in {32, 9, 10, 13}

IsDigit(c) == c >= 48 /\ c <= 57

IsHex(c) == IsDigit(c) \/ (c >= 97 /\ c <= 102) \/ (c >= 65 /\ c <= 70)

HexVal(c) == IF IsDigit(c) THEN c - 48 ELSE IF c >= 97 THEN c - 87 ELSE c - 55

RECURSIVE SkipWhitespace(_, _)
SkipWhitespace(s, i) ==
    IF i <= Len(s) /\ IsWhitespace(s[i]) THEN SkipWhitespace(s, i + 1) ELSE i

\* s[i..] starts with the literal w.
StartsWith(s, i, w) ==
    /\ i + Len(w) - 1 <= Len(s)
    /\ \A k \in 1..Len(w) : s[i + k - 1] = w[k]

\* The character of a one-letter escape, 0 when the letter is no escape.
SimpleEscape(c) ==
    CASE c = 34 -> 34
      [] c = 92 -> 92
      [] c = 47 -> 47
      [] c = 98 -> 8
      [] c = 102 -> 12
      [] c = 110 -> 10
      [] c = 114 -> 13
      [] c = 116 -> 9
      [] OTHER -> 0

Hex4(s, i) ==
    4096 * HexVal(s[i]) + 256 * HexVal(s[i + 1]) + 16 * HexVal(s[i + 2]) + HexVal(s[i + 3])

IsHex4(s, i) == i + 3 <= Len(s) /\ \A k \in 0..3 : IsHex(s[i + k])

\* The body of a string, from the character after the opening quote.
RECURSIVE ScanString(_, _, _)
ScanString(s, i, acc) ==
    IF i > Len(s) THEN JsonError                        \* unterminated string
    ELSE IF s[i] = 34 THEN JsonOk(PyStr(acc), i + 1)
    ELSE IF s[i] < 32 THEN JsonError                    \* control character
    ELSE IF s[i] # 92 THEN ScanString(s, i + 1, Append(acc, s[i]))
    ELSE IF i + 1 > Len(s) THEN JsonError
    ELSE IF s[i + 1] = 117 THEN
        IF ~IsHex4(s, i + 2) THEN JsonError
        ELSE LET hi == Hex4(s, i + 2) IN
             IF /\ hi >= 55296 /\ hi <= 56319
                /\ StartsWith(s, i + 6, <<92, 117>>)
                /\ IsHex4(s, i + 8)
                /\ Hex4(s, i + 8) >= 56320 /\ Hex4(s, i + 8) <= 57343
             THEN ScanString(s, i + 12,
                     Append(acc, 65536 + (hi - 55296) * 1024 + (Hex4(s, i + 8) - 56320)))
             ELSE ScanString(s, i + 6, Append(acc, hi))
    ELSE IF SimpleEscape(s[i + 1]) = 0 THEN JsonError   \* invalid escape
    ELSE ScanString(s, i + 2, Append(acc, SimpleEscape(s[i + 1])))

RECURSIVE ScanDigits(_, _)
ScanDigits(s, i) == IF i <= Len(s) /\ IsDigit(s[i]) THEN ScanDigits(s, i + 1) ELSE i

ScanNumber(s, i) ==
    LET first == IF s[i] = 45 THEN i + 1 ELSE i
        last == ScanDigits(s, first)
    IN  IF last = first THEN JsonError
        ELSE IF s[first] = 48 /\ last > first + 1 THEN JsonOk(PyInt(SubSeq(s, i, first)), first + 1)
        ELSE JsonOk(PyInt(SubSeq(s, i, last - 1)), last)

RECURSIVE ScanValue(_, _), ScanObject(_, _, _), ScanArray(_, _, _)
ScanValue(s, i) ==
    IF i > Len(s) THEN JsonError
    ELSE CASE s[i] = 34 -> ScanString(s, i + 1, <<>>)
           [] s[i] = 123 ->
                LET j == SkipWhitespace(s, i + 1) IN
                IF j <= Len(s) /\ s[j] = 125 THEN JsonOk(PyDict(<<>>), j + 1)
                ELSE ScanObject(s, j, <<>>)
           [] s[i] = 91 ->
                LET j == SkipWhitespace(s, i + 1) IN
                IF j <= Len(s) /\ s[j] = 93 THEN JsonOk(PyList(<<>>), j + 1)
                ELSE ScanArray(s, j, <<>>)
           [] StartsWith(s, i, <<110, 117, 108, 108>>) -> JsonOk(PyNone, i + 4)
           [] StartsWith(s, i, <<116, 114, 117, 101>>) -> JsonOk(PyBool(TRUE), i + 4)
           [] StartsWith(s, i, <<102, 97, 108, 115, 101>>) -> JsonOk(PyBool(FALSE), i + 5)
           [] s[i] = 45 \/ IsDigit(s[i]) -> ScanNumber(s, i)
           [] OTHER -> JsonError

\* The pairs of an object, from the first key; i is at the key's quote.
ScanObject(s, i, items) ==
    IF i > Len(s) \/ s[i] # 34 THEN JsonError
    ELSE LET k == ScanString(s, i + 1, <<>>) IN
         IF ~k.ok THEN JsonError
         ELSE LET c == SkipWhitespace(s, k.pos) IN
              IF c > Len(s) \/ s[c] # 58 THEN JsonError
              ELSE LET val == ScanValue(s, SkipWhitespace(s, c + 1)) IN
                   IF ~val.ok THEN JsonError
                   ELSE LET e == SkipWhitespace(s, val.pos)
                            now == DictSet(items, k.v.s, val.v)
                        IN  IF e > Len(s) THEN JsonError
                            ELSE IF s[e] = 125 THEN JsonOk(PyDict(now), e + 1)
                            ELSE IF s[e] = 44
                                 THEN ScanObject(s, SkipWhitespace(s, e + 1), now)
                            ELSE JsonError

\* The elements of an array, from the first element.
ScanArray(s, i, elems) ==
    LET val == ScanValue(s, i) IN
    IF ~val.ok THEN JsonError
    ELSE LET e == SkipWhitespace(s, val.pos)
             now == Append(elems, val.v)
         IN  IF e > Len(s) THEN JsonError
             ELSE IF s[e] = 93 THEN JsonOk(PyList(now), e + 1)
             ELSE IF s[e] = 44 THEN ScanArray(s, SkipWhitespace(s, e + 1), now)
             ELSE JsonError

\* json.loads(text): [ok, v]; ok is FALSE where Python raises JSONDecodeError.
Loads(text) ==
    LET r == ScanValue(text, SkipWhitespace(text, 1)) IN
    IF r.ok /\ SkipWhitespace(text, r.pos) = Len(text) + 1
    THEN [ok |-> TRUE, v |-> r.v]
    ELSE [ok |-> FALSE, v |-> PyNone]                   \* also "Extra data"

(***************************************************************************)
(* str.encode("utf-16-le") and bytes.decode("utf-16-le")                   *)
(***************************************************************************)
IsSurrogate(c) == c >= 55296 /\ c <= 57343

Unit16(u) == <<u % 256, u \div 256>>

\* Text outside the basic plane: one surrogate pair per such character.
RECURSIVE EncodeUtf16leWide(_)
EncodeUtf16leWide(cs) ==
    IF cs = <<>> THEN <<>>
    ELSE LET c == Head(cs) IN
         (IF c >= 65536
          THEN Unit16(55296 + ((c - 65536) \div 1024)) \o Unit16(56320 + ((c - 65536) % 1024))
          ELSE Unit16(c))
         \o EncodeUtf16leWide(Tail(cs))

\* An encoder that writes the high byte of each unit first.
EncodeUtf16be(cs) ==
    [k \in 1..(2 * Len(cs)) |->
        IF k % 2 = 1 THEN cs[(k + 1) \div 2] \div 256 ELSE cs[k \div 2] % 256]

\* Two bytes per character of the basic plane, low byte first.
EncodeUtf16le(cs) ==
    IF \E i \in 1..Len(cs) : cs[i] >= 65536 THEN EncodeUtf16leWide(cs)
    ELSE [k \in 1..(2 * Len(cs)) |->
            IF k % 2 = 1 THEN cs[(k + 1) \div 2] % 256 ELSE cs[k \div 2] \div 256]

\* Bytes that hold surrogate units: a pair is one character, a unit without
\* its partner is an error.
RECURSIVE DecodeUtf16leWide(_, _, _)
DecodeUtf16leWide(bs, i, acc) ==
    IF i > Len(bs) THEN [ok |-> TRUE, s |-> acc]
    ELSE LET u == bs[i] + 256 * bs[i + 1] IN
         IF ~IsSurrogate(u) THEN DecodeUtf16leWide(bs, i + 2, Append(acc, u))
         ELSE IF /\ u <= 56319
                 /\ i + 3 <= Len(bs)
                 /\ bs[i + 2] + 256 * bs[i + 3] >= 56320
                 /\ bs[i + 2] + 256 * bs[i + 3] <= 57343
              THEN DecodeUtf16leWide(bs, i + 4,
                      Append(acc, 65536 + (u - 55296) * 1024
                                        + (bs[i + 2] + 256 * bs[i + 3] - 56320)))
              ELSE [ok |-> FALSE, s |-> <<>>]

\* [ok, s]; ok is FALSE where Python raises UnicodeDecodeError (an odd number
\* of bytes, an unpaired surrogate).
DecodeUtf16le(bs) ==
    IF Len(bs) % 2 = 1 THEN [ok |-> FALSE, s |-> <<>>]
    ELSE IF \E k \in 1..(Len(bs) \div 2) : IsSurrogate(bs[2 * k - 1] + 256 * bs[2 * k])
    THEN DecodeUtf16leWide(bs, 1, <<>>)
    ELSE [ok |-> TRUE,
          s |-> [k \in 1..(Len(bs) \div 2) |-> bs[2 * k - 1] + 256 * bs[2 * k]]]

(***************************************************************************)
(* SecretStore: state                                                      *)
(***************************************************************************)
VARIABLES
    IS_WINDOWS,         \* the backend variant, fixed at process start
    session,            \* the live tidalapi.Session: the four fields save() reads
    token_dictionary,   \* per store instance: self.token_dictionary
    backend,            \* the persisted entry: [present, data]
    call,               \* the last step: [op, store, cond, raised, ret]
    last_mut,           \* history: the last save()/clear(): [op, ok, again]
    loaded_after,       \* history: the instances constructed since last_mut
    race                \* a save() and a clear() under way on the live store:
                        \* where each stands, save()'s json_data, and
                        \* whether the two calls overlapped

storeVars ==
    <<IS_WINDOWS, session, token_dictionary, backend, call, last_mut, loaded_after,
      race>>

\* Neither save() nor clear() is under way.
NoRace ==
    [save_pc |-> "idle", clear_pc |-> "idle", json_data |-> <<>>,
     overlapped |-> FALSE]

\* Two instances against the same backend: the store of the running process
\* and the store a later start of the process constructs.
Stores == {"live", "fresh"}

\* The instance the application calls save() and clear() on.
Writers == {"live"}

\* A name to which no instance is bound yet.
Unconstructed == [t |-> "unconstructed", s |-> <<>>, items |-> <<>>]

KeyTokenType == <<116, 111, 107, 101, 110, 45, 116, 121, 112, 101>>

KeyAccessToken == <<97, 99, 99, 101, 115, 115, 45, 116, 111, 107, 101, 110>>

KeyRefreshToken == <<114, 101, 102, 114, 101, 115, 104, 45, 116, 111, 107, 101, 110>>

KeyExpiryTime == <<101, 120, 112, 105, 114, 121, 45, 116, 105, 109, 101>>

\* required_keys of has_credentials(), with one key missing.
required_keys_short == <<KeyTokenType, KeyAccessToken>>

required_keys == <<KeyTokenType, KeyAccessToken, KeyRefreshToken>>

(***************************************************************************)
(* Inputs: the sessions the application saves, the entries the backend may *)
(* hold when the process starts                                            *)
(***************************************************************************)
NumSessions == 3

Bearer == PyStr(<<66, 101, 97, 114, 101, 114>>)

\* 1: the plain session; 2: tokens with a quote and a backslash, a datetime
\* expiry; 3: a non-ASCII and a control character, no expiry; 4: a session
\* that holds no tokens; 5: a rotated plain session.
SessionTable ==
    << [token_type |-> Bearer, access_token |-> PyStr(<<65>>),
        refresh_token |-> PyStr(<<82>>),
        expiry_time |-> PyStr(<<50, 48, 50, 53, 45, 48, 49, 45, 48, 49>>)],
       [token_type |-> Bearer, access_token |-> PyStr(<<97, 34, 98>>),
        refresh_token |-> PyStr(<<99, 92, 100>>),
        expiry_time |-> PyDatetime(<<50, 48, 50, 53, 45, 48, 49, 45, 48, 49, 32,
                                     48, 48, 58, 48, 48, 58, 48, 48>>)],
       [token_type |-> Bearer, access_token |-> PyStr(<<233>>),
        refresh_token |-> PyStr(<<10>>), expiry_time |-> PyNone],
       [token_type |-> PyNone, access_token |-> PyNone,
        refresh_token |-> PyNone, expiry_time |-> PyNone],
       [token_type |-> Bearer, access_token |-> PyStr(<<66>>),
        refresh_token |-> PyStr(<<83>>),
        expiry_time |-> PyStr(<<50, 48, 50, 54>>)] >>

Sessions == {SessionTable[n] : n \in 1..NumSessions}

\* Texts an entry may hold that no save() of this model wrote:
\*   {"token-type": "Bearer"}                       a partial bundle
\*   {"token-type": "B", "access-token": "A", "expiry-time": "E"}
\*                                                  partial, with an expiry
\*   {"token-type": "Bea                            cut short
\*   null                                           JSON, but no object
\*   []                                             JSON, but no object
ForeignTexts ==
    { <<123, 34, 116, 111, 107, 101, 110, 45, 116, 121, 112, 101, 34, 58, 32,
        34, 66, 101, 97, 114, 101, 114, 34, 125>>,
      <<123, 34, 116, 111, 107, 101, 110, 45, 116, 121, 112, 101, 34, 58, 32, 34,
        66, 34, 44, 32, 34, 97, 99, 99, 101, 115, 115, 45, 116, 111, 107, 101, 110,
        34, 58, 32, 34, 65, 34, 44, 32, 34, 101, 120, 112, 105, 114, 121, 45, 116,
        105, 109, 101, 34, 58, 32, 34, 69, 34, 125>>,
      <<123, 34, 116, 111, 107, 101, 110, 45, 116, 121, 112, 101, 34, 58, 32,
        34, 66, 101, 97>>,
      <<110, 117, 108, 108>>,
      <<91, 93>> }

(***************************************************************************)
(* WindowsMediaControls: state                                             *)
(***************************************************************************)
VARIABLES
    HAS_WINSDK,     \* the winsdk import succeeded
    bridge,         \* the fields of the WindowsMediaControls instance
    native,         \* the native players created so far: the session of each SMTC
    display,        \* playback status and display updater of the newest player
    workers,        \* the thumbnail threads started and not yet finished
    media_call,     \* the last step: [op, raised, ret]
    native_calls,   \* the native calls the last step made, in order
    shut_down,      \* shutdown() has been called on the bridge
    events,         \* the button codes the system delivered, in order
    callbacks,      \* the callbacks the bridge invoked, in order
    last_push       \* the thumbnail file the last update_metadata gave to the
                    \* display updater the bridge holds, "" for none

mediaVars == <<HAS_WINSDK, bridge, native, display, workers, media_call,
               native_calls, shut_down, events, callbacks, last_push>>

\* How many MediaPlayer objects the process creates.
MaxPlayers == 2

\* How many thumbnail threads run at a time.
MaxWorkers == 1

\* How many button events the system delivers.
MaxEvents == 2

NoTrack == [title |-> "", artist |-> "", album |-> ""]

\* No update_metadata call has reached the display updater.
NoMediaPush == "<none>"

\* What the player pushes: title, artist, album.
Tracks ==
    { [title |-> "T1", artist |-> "A1", album |-> "L1"],
      [title |-> "T2", artist |-> "A2", album |-> ""] }

\* Thumbnail paths: none, a file that exists, a file that does not.
ThumbnailPaths == {"", "cover.jpg", "gone.jpg"}

PathExists(path) == path = "cover.jpg"

\* The fields set by WindowsMediaControls.__init__; a native object is
\* named by its index in native, None is 0.
NewBridge ==
    [media_player |-> 0, smtc |-> 0, display_updater |-> 0, initialized |-> FALSE,
     current |-> NoTrack, button_pressed_token |-> 0]

\* The transport controls of a MediaPlayer as MediaPlayer() returns it.
NewPlayer == [is_enabled |-> FALSE, buttons |-> {}, listeners |-> {}]

\* The playback status and the display updater of a new player.  The bridge
\* reaches the display of its newest player only (a reference it overwrote or
\* cleared is gone), so one display is kept: that of the newest player.
NewDisplay ==
    [playback_status |-> "closed", type |-> "unknown",
     props |-> NoTrack, thumbnail |-> "", shown |-> <<>>]

\* The five is_*_enabled flags initialize() sets.
TransportButtons == {"play", "pause", "next", "previous", "stop"}

\* The steps of initialize() at which the native layer may raise.
FailPoints == {"player", "smtc", "enable", "buttons", "listener", "updater", "type"}

\* No bridge is in use.
MediaIdle ==
    /\ HAS_WINSDK = FALSE
    /\ bridge = NewBridge
    /\ native = <<>>
    /\ display = NewDisplay
    /\ workers = <<>>
    /\ media_call = [op |-> "none", raised |-> "none", ret |-> "None"]
    /\ native_calls = <<>>
    /\ shut_down = FALSE
    /\ events = <<>>
    /\ callbacks = <<>>
    /\ last_push = NoMediaPush

(***************************************************************************)
(* WindowsNotifications: the state                                         *)
(***************************************************************************)
VARIABLES
    notifications,  \* the fields of the WindowsNotifications instance
    toasts,         \* the show_toast threads started and not yet finished
    notify_call,    \* the last call of the service: [op, track_id, ret, started]
    last_shown      \* the track id of the last now-playing toast dispatched

notifyVars == <<notifications, toasts, notify_call, last_shown>>

\* How many show_toast threads run at a time.
MaxToasts == 2

\* track_id is Optional[str]: None, the empty string, or an id.
NoneId == "<None>"

TrackIds == {NoneId, "", "T1", "T2"}

\* No notification was dispatched yet.
NothingShown == "<nothing>"

\* The class attributes _notifier, _enabled, _last_track_id, with the
\* notifier __init__ obtained (TRUE) or not (FALSE).
NewNotifications(notifier) ==
    [notifier |-> notifier, enabled |-> TRUE, last_track_id |-> NoneId]

NotifyCalled(op, track_id, ret, started) ==
    [op |-> op, track_id |-> track_id, ret |-> ret, started |-> started]

\* No notification service is in use.
NotifyIdle ==
    /\ notifications = NewNotifications(FALSE)
    /\ toasts = 0
    /\ notify_call = NotifyCalled("none", NoneId, "None", FALSE)
    /\ last_shown = NothingShown

(***************************************************************************)
(* Startup and protocol registration: the state                            *)
(***************************************************************************)
VARIABLES
    runtime,        \* how the process runs: "frozen", "script" or "unknown"
    autostart,      \* the value HighTide of the Run key: <<>> or <<command>>
    protocol,       \* the keys below Software\Classes\tidal and their values
    reg_call,       \* the last step: [op, arg, cond, ret, raised, deleted, before]
    last_ok,        \* the argument of the last set_startup_enabled that returned True
    foreign,        \* the rest of the registry: other values of the Run
                    \* key, other keys below Software\Classes
    prefs           \* the two switch rows of the preferences dialog

registryVars == <<runtime, autostart, protocol, reg_call, last_ok, foreign, prefs>>

\* No preferences dialog has been built: no row, no handler connected.
\* notified names the row whose notify::active is being delivered.
NoPrefs == [open |-> FALSE, startup |-> FALSE, protocol |-> FALSE, notified |-> "none"]

\* What other programs keep in the two places the application writes to.
ForeignEntries == [run |-> {"OneDrive"}, classes |-> {"http", "tidal-old"}]

\* A key of the protocol subtree is named by its path below
\* Software\Classes\tidal; <<>> is the root key.
RootKey == <<>>
DefaultIconKey == <<"DefaultIcon">>
CommandKey == <<"shell", "open", "command">>

\* The keys register_protocol_handler creates, CreateKey making the missing
\* ancestors of a key as well.
ProtocolKeys == {RootKey, DefaultIconKey, <<"shell">>, <<"shell", "open">>, CommandKey}

NoProtocol == [keys |-> {}, values |-> {}]

\* No call of set_startup_enabled has returned True.
NoneOk == "none"

\* before: the autostart value a set_startup_enabled found; deleted: the keys
\* an unregister_protocol_handler deleted, in order.
RegCalled(op, arg, cond, ret, raised, deleted) ==
    [op |-> op, arg |-> arg, cond |-> cond, ret |-> ret, raised |-> raised,
     deleted |-> deleted, before |-> <<>>]

\* No registration is in use.
RegistryIdle ==
    /\ runtime = "frozen"
    /\ autostart = <<>>
    /\ protocol = NoProtocol
    /\ reg_call = RegCalled("none", "None", "ok", "None", "none", <<>>)
    /\ last_ok = NoneOk
    /\ foreign = [run |-> {}, classes |-> {}]
    /\ prefs = NoPrefs

(***************************************************************************)
(* WindowsTrayIcon: the state                                              *)
(***************************************************************************)
VARIABLES
    HAS_PYSTRAY,    \* the pystray and Pillow imports succeeded
    tray,           \* the fields of the WindowsTrayIcon instance
    icons,          \* the pystray icons created so far
    tray_call,      \* the last step: [op, ret, raised, calls, arg]
    pushed          \* the arguments of the last update_state call

trayVars == <<HAS_PYSTRAY, tray, icons, tray_call, pushed>>

\* The fields set by WindowsTrayIcon.__init__; an icon is named by its index
\* in icons and a thread by the index of the icon it runs, None is 0.
NewTray ==
    [icon |-> 0, thread |-> 0, is_playing |-> FALSE,
     current_title |-> "High Tide", current_artist |-> ""]

\* arg is the icon asset a start() was given and cond the statement of it
\* that raised.
TrayCalled(op, ret, raised, calls) ==
    [op |-> op, ret |-> ret, raised |-> raised, calls |-> calls,
     arg |-> "None", cond |-> "none"]

\* No update_state call has been made.
NoPush == [is_playing |-> FALSE, title |-> "<none>", artist |-> ""]

\* No tray icon is in use.
TrayIdle ==
    /\ HAS_PYSTRAY = FALSE
    /\ tray = NewTray
    /\ icons = <<>>
    /\ tray_call = TrayCalled("none", "None", "none", <<>>)
    /\ pushed = NoPush

shellVars == <<notifyVars, registryVars, trayVars>>

\* Neither notifications, nor registrations, nor a tray icon are in use.
ShellIdle == NotifyIdle /\ RegistryIdle /\ TrayIdle

Absent == [present |-> FALSE, data |-> <<>>]

\* An entry that holds text: the native vault keeps its UTF-16LE bytes, the
\* secret service the text.
Entry(win, text) ==
    [present |-> TRUE, data |-> IF win THEN EncodeUtf16le(text) ELSE text]

(***************************************************************************)
(* SecretStore: the methods as functions of the state they read            *)
(***************************************************************************)
\* bool(password) for the value a backend read returns.
Truthy(v) == v.t = "str" /\ v.s # <<>>

\* s occurs in text: "key in str".
IsSubstring(sub, text) ==
    \E i \in 1..(Len(text) - Len(sub) + 1) : SubSeq(text, i, i + Len(sub) - 1) = sub

\* "key in self.token_dictionary" is defined for these types only.
IsContainer(d) == d.t \in {"dict", "list", "str"}

KeyIn(k, d) ==
    CASE d.t = "dict" -> k \in DictKeys(d)
      [] d.t = "list" -> \E i \in 1..Len(d.items) : d.items[i] = PyStr(k)
      [] d.t = "str" -> IsSubstring(k, d.s)
      [] OTHER -> FALSE

\* has_credentials(): [raised, ret].
HasCredentials(d) ==
    IF ~IsContainer(d) THEN [raised |-> "TypeError", ret |-> <<>>]
    ELSE [raised |-> "none",
          ret |-> << \A i \in 1..Len(required_keys) : KeyIn(required_keys[i], d) >>]

\* A get() that fills in what is missing: dict.get(key, "").
GetDefault(d) ==
    IF d.t # "dict" THEN [raised |-> "TypeError", ret |-> <<>>]
    ELSE [raised |-> "none",
          ret |-> [i \in 1..3 |->
                     IF required_keys[i] \in DictKeys(d)
                     THEN DictGet(d, required_keys[i]) ELSE PyStr(<<>>)]]

\* get(): [raised, ret].
Get(d) ==
    IF d.t # "dict" THEN [raised |-> "TypeError", ret |-> <<>>]
    ELSE IF \E k \in {KeyTokenType, KeyAccessToken, KeyRefreshToken} : k \notin DictKeys(d)
    THEN [raised |-> "KeyError", ret |-> <<>>]
    ELSE [raised |-> "none",
          ret |-> <<DictGet(d, KeyTokenType), DictGet(d, KeyAccessToken),
                    DictGet(d, KeyRefreshToken)>>]

\* A clear() that leaves the dictionary as it is.
DictClearKeeps(d) == [raised |-> "none", td |-> d]

\* self.token_dictionary.clear(): [raised, td].
DictClear(d) ==
    CASE d.t = "dict" -> [raised |-> "none", td |-> EmptyDict]
      [] d.t = "list" -> [raised |-> "none", td |-> PyList(<<>>)]
      [] OTHER -> [raised |-> "AttributeError", td |-> d]

\* A bundle built with the two tokens exchanged.
BundleSwapped(sess) ==
    PyDict(<< <<KeyTokenType, sess.token_type>>,
              <<KeyAccessToken, sess.refresh_token>>,
              <<KeyRefreshToken, sess.access_token>>,
              <<KeyExpiryTime, Str(sess.expiry_time)>> >>)

\* The dict save() builds from the four fields of the session.
Bundle(sess) ==
    PyDict(<< <<KeyTokenType, sess.token_type>>,
              <<KeyAccessToken, sess.access_token>>,
              <<KeyRefreshToken, sess.refresh_token>>,
              <<KeyExpiryTime, Str(sess.expiry_time)>> >>)

\* _windows_read_credential(): [raised, password].  CredReadW answers FALSE
\* for an absent entry and when the read fails.
windows_read_credential(be, cond) ==
    IF be.present /\ cond = "ok"
    THEN IF Len(be.data) > 0
         THEN LET d == DecodeUtf16le(be.data) IN
              IF d.ok THEN [raised |-> "none", password |-> PyStr(d.s)]
              ELSE [raised |-> "UnicodeDecodeError", password |-> PyNone]
         ELSE [raised |-> "none", password |-> PyNone]
    ELSE [raised |-> "none", password |-> PyNone]

\* _init_windows without its try/except: a failure of the read or of the
\* decoding leaves the constructor.
init_windows_unguarded(be, cond) ==
    LET r == windows_read_credential(be, cond) IN
    IF r.raised # "none" THEN [raised |-> r.raised, td |-> EmptyDict]
    ELSE IF Truthy(r.password)
    THEN LET j == Loads(r.password.s) IN
         IF j.ok THEN [raised |-> "none", td |-> j.v]
         ELSE [raised |-> "JSONDecodeError", td |-> EmptyDict]
    ELSE [raised |-> "none", td |-> EmptyDict]

\* _init_windows(): [raised, td].
init_windows(be, cond) ==
    LET r == windows_read_credential(be, cond) IN
    IF r.raised # "none" THEN [raised |-> "none", td |-> EmptyDict]
    ELSE IF Truthy(r.password)
    THEN LET j == Loads(r.password.s) IN
         IF j.ok THEN [raised |-> "none", td |-> j.v]
         ELSE [raised |-> "none", td |-> EmptyDict]
    ELSE [raised |-> "none", td |-> EmptyDict]

\* A backend call that returned, and one that raised.
Did(name) == [name |-> name, raised |-> FALSE]
Failed(name) == [name |-> name, raised |-> TRUE]

\* The libsecret calls of _init_linux up to the lock test, when neither
\* raises: without a service or without a default collection there is no
\* lock to test.
LockTest(cond) ==
    IF cond = "no_service" THEN <<Did("Service.get_sync")>>
    ELSE IF cond = "no_collection"
    THEN <<Did("Service.get_sync"), Did("Collection.for_alias_sync")>>
    ELSE <<Did("Service.get_sync"), Did("Collection.for_alias_sync"),
           Did("get_locked")>>

\* The collection answers get_locked() with true.
Locked(cond) == cond \in {"locked_unlocks", "locked_stays", "unlock_error"}

\* _init_linux looking the password up before it asks for the unlock.
InitLinuxCallsLookupFirst(cond) ==
    IF cond = "service_error" THEN <<Failed("Service.get_sync")>>
    ELSE IF cond = "collection_error"
    THEN <<Did("Service.get_sync"), Failed("Collection.for_alias_sync")>>
    ELSE <<IF cond = "lookup_error" THEN Failed("password_lookup_sync")
           ELSE Did("password_lookup_sync")>>
           \o LockTest(cond)
           \o (IF Locked(cond)
               THEN <<IF cond = "unlock_error" THEN Failed("unlock_sync")
                      ELSE Did("unlock_sync")>>
               ELSE <<>>)

\* The libsecret calls of _init_linux, in order, up to the one that raises.
InitLinuxCalls(cond) ==
    IF cond = "service_error" THEN <<Failed("Service.get_sync")>>
    ELSE IF cond = "collection_error"
    THEN <<Did("Service.get_sync"), Failed("Collection.for_alias_sync")>>
    ELSE LockTest(cond)
           \o (IF Locked(cond)
               THEN <<IF cond = "unlock_error" THEN Failed("unlock_sync")
                      ELSE Did("unlock_sync")>>
               ELSE <<>>)
           \o (IF cond = "unlock_error" THEN <<>>
               ELSE <<IF cond = "lookup_error" THEN Failed("password_lookup_sync")
                      ELSE Did("password_lookup_sync")>>)

\* _init_linux(): [raised, td].  The service, the collection, the unlock
\* request and the lookup are called outside the try block: a GLib.Error of
\* any of them leaves the constructor.  A collection that stays locked
\* answers the lookup with nothing.
init_linux(be, cond) ==
    IF cond \in {"service_error", "collection_error", "unlock_error", "lookup_error"}
    THEN [raised |-> "GLib.Error", td |-> EmptyDict]
    ELSE LET password == IF be.present /\ cond \in {"ok", "locked_unlocks",
                                                    "no_service", "no_collection"}
                         THEN PyStr(be.data) ELSE PyNone
         IN  IF Truthy(password)
             THEN LET j == Loads(password.s) IN
                  IF j.ok THEN [raised |-> "none", td |-> j.v]
                  ELSE [raised |-> "none", td |-> EmptyDict]
             ELSE [raised |-> "none", td |-> EmptyDict]

\* A write that stores the blob although CredWriteW reports failure.
windows_write_credential_always(be, password, ok) ==
    [ok |-> ok, backend |-> [present |-> TRUE, data |-> EncodeUtf16le(password)]]

\* _windows_write_credential(): [ok, backend].
windows_write_credential(be, password, ok) ==
    [ok |-> ok,
     backend |-> IF ok THEN [present |-> TRUE, data |-> EncodeUtf16le(password)] ELSE be]

\* A delete that reports success and leaves the entry.
windows_delete_credential_keeps(be, ok) == [ok |-> be.present /\ ok, backend |-> be]

\* _windows_delete_credential(): [ok, backend].  CredDeleteW answers FALSE for
\* an absent entry.
windows_delete_credential(be, ok) ==
    [ok |-> be.present /\ ok, backend |-> IF ok THEN Absent ELSE be]

(***************************************************************************)
(* SecretStore: the operations                                             *)
(***************************************************************************)
\* calls: the libsecret calls a constructor made.
Called(op, s, cond, raised, ret) ==
    [op |-> op, store |-> s, cond |-> cond, raised |-> raised, ret |-> ret,
     calls |-> <<>>]

\* SecretStore(session): a new instance bound to the name s.  An exception
\* leaves the name bound to what it was.
construct(s, cond) ==
    /\ s = "live" => token_dictionary[s] = Unconstructed
    /\ LET r == IF IS_WINDOWS THEN init_windows(backend, cond)
                ELSE init_linux(backend, cond)
       IN  /\ token_dictionary' =
                 [token_dictionary EXCEPT ![s] = IF r.raised = "none" THEN r.td ELSE @]
           /\ call' = [Called("construct", s, cond, r.raised, <<>>)
                          EXCEPT !.calls = IF IS_WINDOWS THEN <<>>
                                           ELSE InitLinuxCalls(cond)]
           /\ loaded_after' = IF r.raised = "none" THEN loaded_after \cup {s}
                              ELSE loaded_after
    /\ UNCHANGED <<IS_WINDOWS, session, backend, last_mut>>
    /\ UNCHANGED <<race, mediaVars, shellVars>>

has_credentials(s) ==
    /\ token_dictionary[s] # Unconstructed
    /\ LET r == HasCredentials(token_dictionary[s])
       IN  call' = Called("has_credentials", s, "ok", r.raised, r.ret)
    /\ UNCHANGED <<IS_WINDOWS, session, token_dictionary, backend, last_mut, loaded_after>>
    /\ UNCHANGED <<race, mediaVars, shellVars>>

get(s) ==
    /\ token_dictionary[s] # Unconstructed
    /\ LET r == Get(token_dictionary[s])
       IN  call' = Called("get", s, "ok", r.raised, r.ret)
    /\ UNCHANGED <<IS_WINDOWS, session, token_dictionary, backend, last_mut, loaded_after>>
    /\ UNCHANGED <<race, mediaVars, shellVars>>

\* A delete that takes "nothing to delete" for a failure.
clear_backend_strict(be, win, ok) ==
    IF win
    THEN LET w == windows_delete_credential(be, ok) IN
         [raised |-> IF w.ok THEN "none" ELSE "OSError", backend |-> w.backend]
    ELSE IF ok THEN [raised |-> "none", backend |-> Absent]
    ELSE [raised |-> "GLib.Error", backend |-> be]

\* The backend half of clear(): [raised, backend].  The native delete's
\* answer is dropped; password_clear_sync raises only when the call fails.
clear_backend(be, win, ok) ==
    IF win THEN [raised |-> "none", backend |-> windows_delete_credential(be, ok).backend]
    ELSE IF ok THEN [raised |-> "none", backend |-> Absent]
    ELSE [raised |-> "GLib.Error", backend |-> be]

\* clear(); ok: the backend's delete call does not fail.
clear(s, ok) ==
    /\ token_dictionary[s] # Unconstructed
    /\ LET c == DictClear(token_dictionary[s])
           b == clear_backend(backend, IS_WINDOWS, ok)
           raised == IF c.raised # "none" THEN c.raised ELSE b.raised
       IN  /\ token_dictionary' = [token_dictionary EXCEPT ![s] = c.td]
           /\ backend' = IF c.raised # "none" THEN backend ELSE b.backend
           /\ call' = Called("clear", s, IF ok THEN "ok" ELSE "delete_error", raised, <<>>)
           /\ last_mut' = [op |-> "clear", ok |-> ok /\ raised = "none",
                           again |-> last_mut.op = "clear" /\ last_mut.ok]
    /\ loaded_after' = {}
    /\ UNCHANGED <<IS_WINDOWS, session>>
    /\ UNCHANGED <<race, mediaVars, shellVars>>

\* A save() that keeps a bundle the store already holds.
save_cached(s, ok) ==
    /\ token_dictionary[s] # Unconstructed
    /\ LET old == token_dictionary[s]
           new == IF old.t = "dict" /\ KeyAccessToken \in DictKeys(old)
                  THEN old ELSE Bundle(session)
           json_data == Dumps(new)
           w == windows_write_credential(backend, json_data, ok)
       IN  /\ token_dictionary' = [token_dictionary EXCEPT ![s] = new]
           /\ backend' = IF IS_WINDOWS THEN w.backend
                         ELSE IF ok THEN [present |-> TRUE, data |-> json_data]
                         ELSE backend
           /\ call' = Called("save", s, IF ok THEN "ok" ELSE "write_error",
                             IF ~IS_WINDOWS /\ ~ok THEN "GLib.Error" ELSE "none", <<>>)
    /\ last_mut' = [op |-> "save", ok |-> ok, again |-> last_mut.op = "save"]
    /\ loaded_after' = {}
    /\ UNCHANGED <<IS_WINDOWS, session>>
    /\ UNCHANGED <<race, mediaVars, shellVars>>

\* save(); ok: the backend's write call does not fail.
save(s, ok) ==
    /\ token_dictionary[s] # Unconstructed
    /\ LET new == Bundle(session)
           json_data == Dumps(new)
           w == windows_write_credential(backend, json_data, ok)
       IN  /\ token_dictionary' = [token_dictionary EXCEPT ![s] = new]
           /\ backend' = IF IS_WINDOWS THEN w.backend
                         ELSE IF ok THEN [present |-> TRUE, data |-> json_data]
                         ELSE backend
           /\ call' = Called("save", s, IF ok THEN "ok" ELSE "write_error",
                             IF ~IS_WINDOWS /\ ~ok THEN "GLib.Error" ELSE "none", <<>>)
    /\ last_mut' = [op |-> "save", ok |-> ok, again |-> last_mut.op = "save"]
    /\ loaded_after' = {}
    /\ UNCHANGED <<IS_WINDOWS, session>>
    /\ UNCHANGED <<race, mediaVars, shellVars>>

\* Neither save() nor clear() takes a lock or tests a flag: a call may begin
\* whatever the other call is doing.
MayEnterExclusive(r, op) ==
    IF op = "save" THEN r.clear_pc = "idle" ELSE r.save_pc = "idle"

MayEnter(r, op) == TRUE

\* save(), first statements: the session is read and the new dictionary is
\* bound to self.token_dictionary.
save_assign(s) ==
    /\ token_dictionary[s] # Unconstructed
    /\ race.save_pc = "idle"
    /\ MayEnter(race, "save")
    /\ token_dictionary' = [token_dictionary EXCEPT ![s] = Bundle(session)]
    /\ race' = [race EXCEPT !.save_pc = "assigned",
                            !.overlapped = race.clear_pc # "idle"]
    /\ call' = Called("save_assign", s, "ok", "none", <<>>)
    /\ loaded_after' = {}
    /\ UNCHANGED <<IS_WINDOWS, session, backend, last_mut>>
    /\ UNCHANGED <<mediaVars, shellVars>>

\* save(), next: json.dumps(self.token_dictionary) reads the attribute as it
\* is now.
save_dumps(s) ==
    /\ race.save_pc = "assigned"
    /\ race' = [race EXCEPT !.save_pc = "dumped",
                            !.json_data = Dumps(token_dictionary[s]),
                            !.overlapped = @ \/ race.clear_pc # "idle"]
    /\ call' = Called("save_dumps", s, "ok", "none", <<>>)
    /\ UNCHANGED <<IS_WINDOWS, session, token_dictionary, backend, last_mut,
                   loaded_after>>
    /\ UNCHANGED <<mediaVars, shellVars>>

\* save(), last: the text is written to the backend.
save_write(s) ==
    /\ race.save_pc = "dumped"
    /\ backend' = IF IS_WINDOWS
                  THEN windows_write_credential(backend, race.json_data, TRUE).backend
                  ELSE [present |-> TRUE, data |-> race.json_data]
    /\ race' = [race EXCEPT !.save_pc = "idle", !.json_data = <<>>,
                            !.overlapped = @ \/ race.clear_pc # "idle"]
    /\ call' = Called("save", s, "ok", "none", <<>>)
    /\ last_mut' = [op |-> "save", ok |-> TRUE, again |-> last_mut.op = "save"]
    /\ loaded_after' = {}
    /\ UNCHANGED <<IS_WINDOWS, session, token_dictionary>>
    /\ UNCHANGED <<mediaVars, shellVars>>

\* clear(), first statement: self.token_dictionary.clear() empties the
\* dictionary the attribute names now.
clear_dict(s) ==
    /\ token_dictionary[s] # Unconstructed
    /\ race.clear_pc = "idle"
    /\ MayEnter(race, "clear")
    /\ LET c == DictClear(token_dictionary[s]) IN
       /\ token_dictionary' = [token_dictionary EXCEPT ![s] = c.td]
       /\ race' = [race EXCEPT !.clear_pc = IF c.raised = "none" THEN "cleared"
                                            ELSE "idle",
                               !.overlapped = race.save_pc # "idle"]
       /\ call' = Called("clear_dict", s, "ok", c.raised, <<>>)
    /\ loaded_after' = {}
    /\ UNCHANGED <<IS_WINDOWS, session, backend, last_mut>>
    /\ UNCHANGED <<mediaVars, shellVars>>

\* clear(), last: the entry is deleted from the backend.
clear_delete(s) ==
    /\ race.clear_pc = "cleared"
    /\ backend' = clear_backend(backend, IS_WINDOWS, TRUE).backend
    /\ race' = [race EXCEPT !.clear_pc = "idle",
                            !.overlapped = @ \/ race.save_pc # "idle"]
    /\ call' = Called("clear", s, "ok", "none", <<>>)
    /\ last_mut' = [op |-> "clear", ok |-> TRUE,
                    again |-> last_mut.op = "clear" /\ last_mut.ok]
    /\ loaded_after' = {}
    /\ UNCHANGED <<IS_WINDOWS, session, token_dictionary>>
    /\ UNCHANGED <<mediaVars, shellVars>>

\* The session's tokens change (login, token rotation): the session object is
\* owned by the API client, not by the store.
rotate(n) ==
    /\ session # SessionTable[n]
    /\ session' = SessionTable[n]
    /\ call' = Called("rotate", "live", "ok", "none", <<>>)
    /\ UNCHANGED <<IS_WINDOWS, token_dictionary, backend, last_mut, loaded_after>>
    /\ UNCHANGED <<race, mediaVars, shellVars>>

(***************************************************************************)
(* SecretStore: specifications                                             *)
(***************************************************************************)
\* What the backend may hold when the process starts: nothing, what an
\* earlier run saved, a foreign text; in the native vault also a blob that
\* is no UTF-16LE text and an empty blob.
InitBackends(win) ==
    {Absent}
      \cup {Entry(win, Dumps(Bundle(sess))) : sess \in Sessions}
      \cup {Entry(win, text) : text \in ForeignTexts}
      \cup (IF win THEN {[present |-> TRUE, data |-> <<123>>],
                         [present |-> TRUE, data |-> <<>>]}
            ELSE {})

StoreInit ==
    /\ IS_WINDOWS \in BOOLEAN
    /\ session \in Sessions
    /\ token_dictionary = [s \in Stores |-> Unconstructed]
    /\ backend \in InitBackends(IS_WINDOWS)
    /\ call = Called("none", "live", "ok", "none", <<>>)
    /\ last_mut = [op |-> "none", ok |-> TRUE, again |-> FALSE]
    /\ loaded_after = {}
    /\ race = NoRace

\* The backend answers: a locked collection unlocks on request.
ReliableConds == IF IS_WINDOWS THEN {"ok"} ELSE {"ok", "locked_unlocks"}

\* The backend may also fail.
FaultyConds ==
    IF IS_WINDOWS THEN {"ok", "read_error"}
    ELSE {"ok", "locked_unlocks", "locked_stays",
          "service_error", "collection_error", "unlock_error", "lookup_error"}

\* Every way _init_linux can run: the service or the collection may also be
\* missing.
LockConds == FaultyConds \cup (IF IS_WINDOWS THEN {} ELSE {"no_service", "no_collection"})

vars == <<storeVars, mediaVars, shellVars>>

Init == StoreInit /\ MediaIdle /\ ShellIdle

Next ==
    \/ \E s \in Stores : \E cond \in ReliableConds : construct(s, cond)
    \/ \E s \in Stores : has_credentials(s)
    \/ \E s \in Stores : get(s)
    \/ \E s \in Writers : clear(s, TRUE)
    \/ \E s \in Writers : save(s, TRUE)
    \/ \E n \in 1..NumSessions : rotate(n)

Spec == Init /\ [][Next]_vars

NextFault ==
    \/ \E s \in Stores : \E cond \in FaultyConds : construct(s, cond)
    \/ \E s \in Stores : has_credentials(s)
    \/ \E s \in Stores : get(s)
    \/ \E s \in Writers : \E ok \in BOOLEAN : clear(s, ok)
    \/ \E s \in Writers : \E ok \in BOOLEAN : save(s, ok)
    \/ \E n \in 1..NumSessions : rotate(n)

SpecFault == Init /\ [][NextFault]_vars

\* Stores constructed against a keyring in any condition, and queried.
LockNext ==
    \/ \E s \in Stores : \E cond \in LockConds : construct(s, cond)
    \/ \E s \in Stores : has_credentials(s)
    \/ \E s \in Writers : clear(s, TRUE)

SpecLock == Init /\ [][LockNext]_vars

\* The tokens before and after a rotation.
RaceSessions == {1, 2}

\* save() and clear() called from two threads on the live store: their
\* statements interleave.  The backend does not fail.
RaceNext ==
    \/ \E s \in Stores : construct(s, "ok")
    \/ \E s \in Stores : has_credentials(s)
    \/ \E s \in Writers : save_assign(s)
    \/ \E s \in Writers : save_dumps(s)
    \/ \E s \in Writers : save_write(s)
    \/ \E s \in Writers : clear_dict(s)
    \/ \E s \in Writers : clear_delete(s)
    \/ \E n \in RaceSessions : rotate(n)

\* The process starts logged out or with what an earlier run saved.
RaceInit ==
    /\ Init
    /\ session = SessionTable[1]
    /\ backend \in {Absent, Entry(IS_WINDOWS, Dumps(Bundle(session)))}

SpecRace == RaceInit /\ [][RaceNext]_vars

(***************************************************************************)
(* SecretStore: properties                                                 *)
(***************************************************************************)
Live == token_dictionary["live"]

Fresh == token_dictionary["fresh"]

IsBundle(d) == d.t = "dict"

\* The bundle d without its expiry-time.
WithoutExpiry(d) ==
    PyDict(SelectSeq(d.items, LAMBDA it : it[1] # KeyExpiryTime))

\* The bundle d with another expiry-time.
WithExpiry(d, v) == PyDict(DictSet(d.items, KeyExpiryTime, v))

\* C1: for a bundle, has_credentials() raises nothing and answers true exactly
\* when token-type, access-token and refresh-token are all among its keys; the
\* answer is the same without an expiry-time and with any other one.
C1_HasCredentialsIffAllThree ==
    (call.op = "has_credentials" /\ IsBundle(token_dictionary[call.store])) =>
        LET d == token_dictionary[call.store] IN
        /\ call.raised = "none"
        /\ call.ret = << /\ KeyTokenType \in DictKeys(d)
                         /\ KeyAccessToken \in DictKeys(d)
                         /\ KeyRefreshToken \in DictKeys(d) >>
        /\ HasCredentials(WithoutExpiry(d)).ret = call.ret
        /\ HasCredentials(WithExpiry(d, PyStr(<<>>))).ret = call.ret
        /\ HasCredentials(WithExpiry(d, PyNone)).ret = call.ret

\* has_credentials() has answered false for a partial bundle that holds two
\* of the three keys and an expiry-time.
C1_Witness ==
    /\ call.op = "has_credentials"
    /\ call.ret = <<FALSE>>
    /\ IsBundle(token_dictionary[call.store])
    /\ {KeyTokenType, KeyAccessToken, KeyExpiryTime} \subseteq DictKeys(token_dictionary[call.store])

\* C2: after a save() whose write succeeded, a store constructed afterwards
\* against the same backend holds a bundle equal to the saving store's, and
\* its get() returns the saved triple.
C2_RoundTrip ==
    (last_mut.op = "save" /\ last_mut.ok /\ "fresh" \in loaded_after) =>
        /\ Fresh = Live
        /\ Get(Fresh).raised = "none"
        /\ Get(Fresh).ret = <<DictGet(Live, KeyTokenType), DictGet(Live, KeyAccessToken),
                              DictGet(Live, KeyRefreshToken)>>
        /\ DictGet(Fresh, KeyExpiryTime) = DictGet(Live, KeyExpiryTime)

\* A fresh store was constructed after a save() of tokens that hold a quote
\* and a backslash, and holds them.
C2_Witness ==
    /\ last_mut.op = "save" /\ last_mut.ok /\ "fresh" \in loaded_after
    /\ call.op = "construct" /\ call.store = "fresh"
    /\ IsBundle(Fresh)
    /\ Get(Fresh).ret = <<Bearer, PyStr(<<97, 34, 98>>), PyStr(<<99, 92, 100>>)>>

\* C3: after a clear() that returned, has_credentials() on that store is
\* false, and so it is on a store constructed afterwards against the same
\* backend.
C3_ClearLeavesNothing ==
    (last_mut.op = "clear" /\ last_mut.ok) =>
        /\ HasCredentials(Live) = [raised |-> "none", ret |-> <<FALSE>>]
        /\ "fresh" \in loaded_after =>
              HasCredentials(Fresh) = [raised |-> "none", ret |-> <<FALSE>>]

\* has_credentials() has answered false on a store constructed after a clear().
C3_Witness ==
    /\ last_mut.op = "clear" /\ last_mut.ok
    /\ "fresh" \in loaded_after
    /\ call.op = "has_credentials" /\ call.store = "fresh" /\ call.ret = <<FALSE>>

\* C4: a clear() on an empty bundle with no backend entry raises nothing and
\* changes nothing; a clear() that follows a clear() raises nothing and
\* leaves the state of the first: an empty bundle and no entry.
C4_ClearIdempotent ==
    [][call'.op = "clear" =>
         /\ (token_dictionary[call'.store] = EmptyDict /\ ~backend.present) =>
               /\ call'.raised = "none"
               /\ token_dictionary' = token_dictionary
               /\ backend' = backend
         /\ (call.op = "clear" /\ call.raised = "none" /\ call.store = call'.store) =>
               /\ call'.raised = "none"
               /\ token_dictionary' = token_dictionary
               /\ backend' = backend
               /\ token_dictionary'[call'.store].items = <<>>
               /\ ~backend'.present]_vars

\* A second clear() in a row has returned.
C4_Witness ==
    /\ call.op = "clear" /\ call.raised = "none"
    /\ last_mut.op = "clear" /\ last_mut.again
    /\ Live = EmptyDict /\ ~backend.present

\* The lookup of a construction failed.
LookupFailed(cond) ==
    cond \notin {"ok", "locked_unlocks", "no_service", "no_collection"}

\* C5: a construction whose backend lookup fails raises nothing and leaves
\* an empty bundle.
C5_InitNeverPropagates ==
    (call.op = "construct" /\ LookupFailed(call.cond)) =>
        /\ call.raised = "none"
        /\ token_dictionary[call.store] = EmptyDict

\* The text of an entry, where it is text.
EntryText(be) ==
    IF IS_WINDOWS THEN DecodeUtf16le(be.data) ELSE [ok |-> TRUE, s |-> be.data]

\* The entry holds something that is not the JSON text of a bundle.
Malformed(be) ==
    /\ be.present
    /\ \/ ~EntryText(be).ok
       \/ ~Loads(EntryText(be).s).ok
       \/ ~IsBundle(Loads(EntryText(be).s).v)

\* C6: a construction from a malformed entry raises nothing and leaves the
\* empty bundle, as a construction from no entry does.
C6_MalformedIsAbsent ==
    (call.op = "construct" /\ call.cond \in {"ok", "locked_unlocks"} /\ Malformed(backend)) =>
        /\ call.raised = "none"
        /\ token_dictionary[call.store] = EmptyDict

\* C7: get() changes neither the bundle nor the entry; on a bundle for which
\* has_credentials() is true it returns the three tokens; on the empty bundle
\* it raises and returns nothing.
C7_GetTripleOrError ==
    [][call'.op = "get" =>
         LET d == token_dictionary[call'.store] IN
         /\ token_dictionary' = token_dictionary
         /\ backend' = backend
         /\ (IsBundle(d) /\ HasCredentials(d).ret = <<TRUE>>) =>
               /\ call'.raised = "none"
               /\ call'.ret = <<DictGet(d, KeyTokenType), DictGet(d, KeyAccessToken),
                                DictGet(d, KeyRefreshToken)>>
         /\ d = EmptyDict => (call'.raised # "none" /\ call'.ret = <<>>)]_vars

\* get() has raised on the empty bundle.
C7_Witness ==
    /\ call.op = "get" /\ call.raised = "KeyError"
    /\ token_dictionary[call.store] = EmptyDict

\* What a store constructed now would hold.
Reload == IF IS_WINDOWS THEN init_windows(backend, "ok") ELSE init_linux(backend, "ok")

\* C8: after each save() the bundle of the store and the entry of the backend
\* hold the values the session has at that call.
C8_SaveReadsLiveSession ==
    (call.op = "save" /\ call.raised = "none" /\ call.cond = "ok") =>
        LET d == token_dictionary[call.store] IN
        /\ IsBundle(d)
        /\ DictKeys(d) = {KeyTokenType, KeyAccessToken, KeyRefreshToken, KeyExpiryTime}
        /\ DictGet(d, KeyTokenType) = session.token_type
        /\ DictGet(d, KeyAccessToken) = session.access_token
        /\ DictGet(d, KeyRefreshToken) = session.refresh_token
        /\ DictGet(d, KeyExpiryTime) = Str(session.expiry_time)
        /\ Reload.td = d

\* A second save() has returned after the session's tokens changed: a store
\* constructed before it holds the older tokens.
C8_Witness ==
    /\ call.op = "save" /\ call.raised = "none"
    /\ last_mut.again
    /\ IsBundle(Fresh) /\ HasCredentials(Fresh).ret = <<TRUE>>
    /\ Get(Fresh).ret # Get(Live).ret
    /\ DictGet(Live, KeyAccessToken) = session.access_token

\* C9 as stated: after a save() whose native write failed, the store holds the
\* new tokens and a store constructed afterwards does not hold that bundle.
C9_FailedWriteNotReported ==
    (IS_WINDOWS /\ last_mut.op = "save" /\ ~last_mut.ok) =>
        /\ call.op = "save" => call.raised = "none"
        /\ HasCredentials(Live).ret = <<TRUE>>
        /\ "fresh" \in loaded_after => Fresh # Live

\* C9, amended: a save() whose native write fails raises nothing, leaves the
\* store with the session's tokens and leaves the backend entry as it was.
C9_FailedWriteKeepsEntry ==
    [][(IS_WINDOWS /\ call'.op = "save" /\ call'.cond = "write_error") =>
         LET d == token_dictionary'[call'.store] IN
         /\ call'.raised = "none"
         /\ backend' = backend
         /\ HasCredentials(d) = [raised |-> "none", ret |-> <<TRUE>>]
         /\ Get(d).ret = <<session.token_type, session.access_token,
                           session.refresh_token>>]_vars

\* After a save() whose native write failed, a store constructed afterwards
\* holds no credentials.
C9_Witness ==
    /\ IS_WINDOWS /\ last_mut.op = "save" /\ ~last_mut.ok
    /\ "fresh" \in loaded_after
    /\ HasCredentials(Live).ret = <<TRUE>>
    /\ Fresh = EmptyDict

(***************************************************************************)
(* WindowsMediaControls: the operations                                    *)
(***************************************************************************)
MediaCalled(op, raised, ret) == [op |-> op, raised |-> raised, ret |-> ret]

\* display_updater.update(): what the updater holds becomes what is shown.
Update(d) == [d EXCEPT !.shown = <<[props |-> d.props, thumbnail |-> d.thumbnail]>>]

\* The native calls of initialize(), in the order of the code, each under
\* the name of the step that fails when the call raises.
InitializeCalls ==
    << [step |-> "player", name |-> "MediaPlayer"],
       [step |-> "smtc", name |-> "system_media_transport_controls"],
       [step |-> "enable", name |-> "is_enabled"],
       [step |-> "buttons", name |-> "is_play_enabled"],
       [step |-> "listener", name |-> "add_button_pressed"],
       [step |-> "updater", name |-> "display_updater"],
       [step |-> "type", name |-> "type"] >>

\* A native call that returned, and one that raised.
Returned(name) == [name |-> name, raised |-> FALSE]
Raising(name) == [name |-> name, raised |-> TRUE]

\* The calls initialize() makes when the step fail_at raises: those up to it.
RECURSIVE CallsUpTo(_, _)
CallsUpTo(k, fail_at) ==
    IF k > Len(InitializeCalls) THEN <<>>
    ELSE IF InitializeCalls[k].step = fail_at THEN <<Raising(InitializeCalls[k].name)>>
    ELSE <<Returned(InitializeCalls[k].name)>> \o CallsUpTo(k + 1, fail_at)

\* initialize() from the creation of the MediaPlayer on:
\* [bridge, native, display, ret].  Each assignment before the failing step
\* stays; the handler of the exception clears _initialized and the method
\* ends without a return value.
Initialize(b, nat, disp, fail_at) ==
    LET p == Len(nat) + 1
        failed(bb, nn) == [bridge |-> [bb EXCEPT !.initialized = FALSE],
                           native |-> nn,
                           display |-> IF Len(nn) > Len(nat) THEN NewDisplay ELSE disp,
                           ret |-> "None"]
        b1 == [b EXCEPT !.media_player = p]
        n1 == Append(nat, NewPlayer)
        b2 == [b1 EXCEPT !.smtc = p]
        n2 == [n1 EXCEPT ![p].is_enabled = TRUE]
        n3 == [n2 EXCEPT ![p].buttons = TransportButtons]
        n4 == [n3 EXCEPT ![p].listeners = @ \cup {p}]
        b4 == [b2 EXCEPT !.button_pressed_token = p]
        b5 == [b4 EXCEPT !.display_updater = p]
    IN  CASE fail_at = "player" -> failed(b, nat)
          [] fail_at = "smtc" -> failed(b1, n1)
          [] fail_at = "enable" -> failed(b2, n1)
          [] fail_at = "buttons" -> failed(b2, n2)
          [] fail_at = "listener" -> failed(b2, n3)
          [] fail_at = "updater" -> failed(b4, n4)
          [] fail_at = "type" -> failed(b5, n4)
          [] OTHER -> [bridge |-> [b5 EXCEPT !.initialized = TRUE],
                       native |-> n4,
                       display |-> [NewDisplay EXCEPT !.type = "music"],
                       ret |-> "True"]

initialize(fail_at) ==
    /\ IF ~HAS_WINSDK
       THEN /\ media_call' = MediaCalled("initialize", "none", "False")
            /\ native_calls' = <<>>
            /\ UNCHANGED <<bridge, native, display>>
       ELSE /\ fail_at = "player" \/ Len(native) < MaxPlayers
            /\ LET r == Initialize(bridge, native, display, fail_at) IN
               /\ bridge' = r.bridge
               /\ native' = r.native
               /\ display' = r.display
               /\ media_call' = MediaCalled("initialize", "none", r.ret)
            /\ native_calls' = CallsUpTo(1, fail_at)
    /\ last_push' = IF Len(native') > Len(native) THEN NoMediaPush ELSE last_push
    /\ UNCHANGED <<HAS_WINSDK, workers, shut_down, events, callbacks>>
    /\ UNCHANGED <<storeVars, shellVars>>

\* A guard that looks at the reference alone.
StatusReturnsEarlyRefOnly(b) == b.smtc = 0

\* update_playback_status: "if not self._initialized or not self._smtc: return".
StatusReturnsEarly(b) == ~b.initialized \/ b.smtc = 0

\* native_fails: the setter of playback_status raises; the handler logs it.
update_playback_status(is_playing, native_fails) ==
    /\ IF StatusReturnsEarly(bridge) \/ native_fails
       THEN UNCHANGED display
       ELSE display' = [display EXCEPT !.playback_status =
                           IF is_playing THEN "playing" ELSE "paused"]
    /\ native_calls' = IF StatusReturnsEarly(bridge) THEN <<>>
                       ELSE IF native_fails THEN <<Raising("playback_status")>>
                       ELSE <<Returned("playback_status")>>
    /\ media_call' = MediaCalled("update_playback_status", "none", "None")
    /\ UNCHANGED <<HAS_WINSDK, last_push, bridge, native, workers, shut_down, events, callbacks>>
    /\ UNCHANGED <<storeVars, shellVars>>

\* The thread _set_thumbnail_async starts: the path it was given, the
\* statement it stands at and the updater it has read from the bridge for
\* that statement (0: none read).
NewWorker(path) == [path |-> path, pc |-> "start", ref |-> 0]

\* A guard that looks at the reference alone.
MetadataReturnsEarlyRefOnly(b) == b.display_updater = 0

\* update_metadata: "if not self._initialized or not self._display_updater: return".
MetadataReturnsEarly(b) == ~b.initialized \/ b.display_updater = 0

\* native_fails: the first native access (display_updater.type) raises, after
\* the _current_* fields are set; the handler logs it.
\* native_fails: the assignment to display_updater.type raises; start_fails:
\* the start of the thumbnail thread raises.  Both are caught and logged.
update_metadata(track, thumbnail_path, native_fails, start_fails) ==
    /\ start_fails => /\ ~MetadataReturnsEarly(bridge) /\ ~native_fails
                      /\ thumbnail_path # "" /\ PathExists(thumbnail_path)
    /\ IF MetadataReturnsEarly(bridge)
       THEN /\ native_calls' = <<>>
            /\ UNCHANGED <<bridge, display, workers>>
       ELSE /\ bridge' = [bridge EXCEPT !.current = track]
            /\ IF native_fails
               THEN /\ native_calls' = <<Raising("type")>>
                    /\ UNCHANGED <<display, workers>>
               ELSE LET set == [display EXCEPT !.type = "music", !.props = track]
                    IN  IF thumbnail_path # "" /\ PathExists(thumbnail_path)
                        THEN /\ Len(workers) < MaxWorkers
                             /\ display' = set
                             /\ workers' = IF start_fails THEN workers
                                           ELSE Append(workers, NewWorker(thumbnail_path))
                             /\ native_calls' =
                                   <<Returned("type"), Returned("music_properties"),
                                     IF start_fails THEN Raising("Thread.start")
                                     ELSE Returned("Thread.start")>>
                        ELSE /\ display' = Update(set)
                             /\ native_calls' = <<Returned("type"), Returned("music_properties"),
                                                  Returned("update")>>
                             /\ UNCHANGED workers
    /\ last_push' = IF MetadataReturnsEarly(bridge) \/ native_fails THEN last_push
                    ELSE IF PathExists(thumbnail_path) THEN thumbnail_path ELSE ""
    /\ media_call' = MediaCalled("update_metadata", "none", "None")
    /\ UNCHANGED <<HAS_WINSDK, native, shut_down, events, callbacks>>
    /\ UNCHANGED <<storeVars, shellVars>>

\* The worker without the update of its failure path.
WorkerDisplayNoFallback(disp, path, resolved) ==
    IF resolved THEN Update([disp EXCEPT !.thumbnail = path]) ELSE disp

\* What _set_thumbnail leaves on the display: the thumbnail and the update,
\* or the update alone when the file could not be resolved.
WorkerDisplay(disp, path, resolved) ==
    IF resolved THEN Update([disp EXCEPT !.thumbnail = path]) ELSE Update(disp)

\* The thread of _set_thumbnail_async: it reads self._display_updater when it
\* runs.  resolved: the file became a stream reference.  Without an updater
\* every access raises AttributeError, which run_async swallows.
thumbnail_worker(resolved) ==
    /\ workers # <<>>
    /\ Head(workers).pc = "start"
    /\ LET w == Head(workers) IN
       display' = IF bridge.display_updater = 0 THEN display
                  ELSE WorkerDisplay(display, w.path, resolved)
    /\ native_calls' = IF bridge.display_updater = 0 THEN <<>>
                       ELSE IF resolved THEN <<Returned("thumbnail"), Returned("update")>>
                       ELSE <<Returned("update")>>
    /\ workers' = Tail(workers)
    /\ media_call' = MediaCalled("thumbnail_worker", "none", "None")
    /\ UNCHANGED <<HAS_WINSDK, last_push, bridge, native, shut_down, events, callbacks>>
    /\ UNCHANGED <<storeVars, shellVars>>

\* The same thread statement by statement, for the calls that run while it
\* does.  pc names the next statement: "start" (lines 464-471, up to the
\* stream reference), "set" (line 472), "update" (line 473), "except"
\* (line 477, in the handler of _set_thumbnail) and "fallback" (line 454,
\* in the handler of run_async).  Each of the last four reads
\* self._display_updater and then calls into what it read.

\* Where an AttributeError on None, or a failing conversion, takes the
\* thread: to the handler of _set_thumbnail, from there to the handler of
\* run_async, and from its "except: pass" to the end ("raise" would be an
\* exception that leaves run_async).
OnError(pc) ==
    CASE pc \in {"start", "set", "update"} -> "except"
      [] pc = "except" -> "fallback"
      [] OTHER -> "done"

\* Where the statement at pc continues when it raises nothing.
OnReturn(pc) ==
    CASE pc = "start" -> "set"
      [] pc = "set" -> "update"
      [] OTHER -> "done"

\* The thread with its statement moved to pc: an ended thread leaves.
Moved(ws, pc) ==
    IF pc \in {"done", "raise"} THEN Tail(ws)
    ELSE <<[Head(ws) EXCEPT !.pc = pc, !.ref = 0]>> \o Tail(ws)

\* StorageFile.get_file_from_path_async and create_from_file.
worker_resolve(resolved) ==
    /\ workers # <<>>
    /\ Head(workers).pc = "start"
    /\ workers' = Moved(workers, IF resolved THEN OnReturn("start") ELSE OnError("start"))
    /\ native_calls' = <<IF resolved THEN Returned("get_file_from_path_async")
                         ELSE Raising("get_file_from_path_async")>>
    /\ media_call' = MediaCalled("worker_resolve", "none", "None")
    /\ UNCHANGED <<HAS_WINSDK, last_push, bridge, native, display, shut_down,
                   events, callbacks>>
    /\ UNCHANGED <<storeVars, shellVars>>

\* The thread evaluates self._display_updater; None has no attribute.
worker_load ==
    /\ workers # <<>>
    /\ Head(workers).pc \in {"set", "update", "except", "fallback"}
    /\ Head(workers).ref = 0
    /\ LET w == Head(workers)
           to == IF bridge.display_updater = 0 THEN OnError(w.pc) ELSE w.pc
       IN  /\ workers' = IF bridge.display_updater = 0 THEN Moved(workers, to)
                         ELSE <<[w EXCEPT !.ref = bridge.display_updater]>> \o Tail(workers)
           /\ media_call' = MediaCalled("worker_load",
                                        IF to = "raise" THEN "AttributeError" ELSE "none",
                                        "None")
    /\ native_calls' = <<>>
    /\ UNCHANGED <<HAS_WINSDK, last_push, bridge, native, display, shut_down,
                   events, callbacks>>
    /\ UNCHANGED <<storeVars, shellVars>>

\* The thread assigns the thumbnail of, or calls update() on, the updater it
\* read.  The display kept is that of the newest player.
worker_use ==
    /\ workers # <<>>
    /\ Head(workers).ref # 0
    /\ LET w == Head(workers) IN
       /\ display' = IF w.ref # Len(native) THEN display
                      ELSE IF w.pc = "set" THEN [display EXCEPT !.thumbnail = w.path]
                      ELSE Update(display)
       /\ native_calls' = <<Returned(IF w.pc = "set" THEN "thumbnail" ELSE "update")>>
       /\ workers' = Moved(workers, OnReturn(w.pc))
    /\ media_call' = MediaCalled("worker_use", "none", "None")
    /\ UNCHANGED <<HAS_WINSDK, last_push, bridge, native, shut_down, events, callbacks>>
    /\ UNCHANGED <<storeVars, shellVars>>

\* update_position: a return in the one branch, nothing in the other.
\* An update_position that pushes the position to the session's timeline.
UpdatePositionTimeline(b, disp, position_ms) ==
    IF ~b.initialized
    THEN [display |-> disp, calls |-> <<>>]
    ELSE [display |-> [disp EXCEPT !.shown = <<>>],
          calls |-> <<Returned("update_timeline_properties")>>]

\* What update_position does to the display, and the native calls it makes:
\* after the flag test both branches are empty.
UpdatePosition(b, disp, position_ms) ==
    IF ~b.initialized
    THEN [display |-> disp, calls |-> <<>>]
    ELSE [display |-> disp, calls |-> <<>>]

update_position(position_ms) ==
    /\ media_call' = MediaCalled("update_position", "none", "None")
    /\ display' = UpdatePosition(bridge, display, position_ms).display
    /\ native_calls' = UpdatePosition(bridge, display, position_ms).calls
    /\ UNCHANGED <<HAS_WINSDK, last_push, bridge, native, workers, shut_down,
                   events, callbacks>>
    /\ UNCHANGED <<storeVars, shellVars>>

\* A shutdown() that does not look at the reference before it calls.
ShutdownCallsUnguarded(b, native_fails) ==
    <<Returned("remove_button_pressed"), Returned("is_enabled")>>

\* The native calls of shutdown() on the bridge b: none without an SMTC, the
\* removal of the listener only when a token is held, and no disabling after
\* a removal that raised.
ShutdownCalls(b, native_fails) ==
    IF b.smtc = 0 THEN <<>>
    ELSE IF b.button_pressed_token # 0 /\ native_fails = "remove"
         THEN <<Raising("remove_button_pressed")>>
    ELSE (IF b.button_pressed_token # 0
          THEN <<Returned("remove_button_pressed")>> ELSE <<>>)
         \o (IF native_fails = "disable"
             THEN <<Raising("is_enabled")>> ELSE <<Returned("is_enabled")>>)

\* A shutdown() that forgets the flag.
shutdown_keeps_flag(native_fails) ==
    /\ native' = native
    /\ bridge' = [bridge EXCEPT !.button_pressed_token = 0, !.media_player = 0,
                                !.smtc = 0, !.display_updater = 0]
    /\ native_calls' = <<>>
    /\ shut_down' = TRUE
    /\ media_call' = MediaCalled("shutdown", "none", "None")
    /\ last_push' = NoMediaPush
    /\ UNCHANGED <<HAS_WINSDK, display, workers, events, callbacks>>
    /\ UNCHANGED <<storeVars, shellVars>>

\* shutdown(); native_fails names the native call that raises inside the try:
\* "remove" (remove_button_pressed), "disable" (is_enabled = False) or "none".
shutdown(native_fails) ==
    /\ native' =
          IF bridge.smtc = 0 THEN native
          ELSE LET p == bridge.smtc
                   removed == IF bridge.button_pressed_token # 0
                              THEN [native EXCEPT ![p].listeners =
                                       @ \ {bridge.button_pressed_token}]
                              ELSE native
               IN  CASE native_fails = "remove" /\ bridge.button_pressed_token # 0 -> native
                     [] native_fails = "disable" -> removed
                     [] OTHER -> [removed EXCEPT ![p].is_enabled = FALSE]
    /\ bridge' = [bridge EXCEPT !.button_pressed_token = 0, !.media_player = 0,
                                !.smtc = 0, !.display_updater = 0,
                                !.initialized = FALSE]
    /\ native_calls' = ShutdownCalls(bridge, native_fails)
    /\ shut_down' = TRUE
    /\ media_call' = MediaCalled("shutdown", "none", "None")
    /\ last_push' = NoMediaPush
    /\ UNCHANGED <<HAS_WINSDK, display, workers, events, callbacks>>
    /\ UNCHANGED <<storeVars, shellVars>>

\* A mapping that answers the play button with the toggle callback.
ButtonCallbackToggle(button) ==
    CASE button = "play" -> "on_play_pause"
      [] button = "pause" -> "on_play_pause"
      [] button = "next" -> "on_next"
      [] button = "previous" -> "on_previous"
      [] button = "stop" -> "on_stop"
      [] OTHER -> "None"

\* The callback _on_button_pressed calls for a button code, "None" for a code
\* it has no branch for.
ButtonCallback(button) ==
    CASE button = "play" -> "on_play"
      [] button = "pause" -> "on_pause"
      [] button = "next" -> "on_next"
      [] button = "previous" -> "on_previous"
      [] button = "stop" -> "on_stop"
      [] OTHER -> "None"

\* A handler with no try around the callbacks.
HandlerRaisedUnguarded(callback_raises) ==
    IF callback_raises THEN "Exception" ELSE "none"

\* What leaves _on_button_pressed when the callback raises: nothing,
\* "except Exception" logs it.
HandlerRaised(callback_raises) == "none"

\* The system delivers a button event of player p to the listener the bridge
\* registered there; the handler calls the callback before it returns.
\* callback_raises: the callback raises; it was called all the same.
on_button_pressed(p, button, callback_raises) ==
    /\ p \in 1..Len(native)
    /\ native[p].is_enabled
    /\ native[p].listeners # {}
    /\ Len(events) < MaxEvents
    /\ callback_raises => ButtonCallback(button) # "None"
    /\ events' = Append(events, button)
    /\ callbacks' = IF ButtonCallback(button) = "None" THEN callbacks
                    ELSE Append(callbacks, ButtonCallback(button))
    /\ media_call' = MediaCalled("on_button_pressed", HandlerRaised(callback_raises),
                                 ButtonCallback(button))
    /\ native_calls' = IF ButtonCallback(button) = "None" THEN <<>>
                       ELSE IF callback_raises THEN <<Raising(ButtonCallback(button))>>
                       ELSE <<Returned(ButtonCallback(button))>>
    /\ UNCHANGED <<HAS_WINSDK, last_push, bridge, native, display, workers, shut_down>>
    /\ UNCHANGED <<storeVars, shellVars>>

(***************************************************************************)
(* WindowsMediaControls: specification                                     *)
(***************************************************************************)
\* No store is in use.
StoreIdle ==
    /\ IS_WINDOWS = TRUE
    /\ session = SessionTable[1]
    /\ token_dictionary = [s \in Stores |-> Unconstructed]
    /\ backend = Absent
    /\ call = Called("none", "live", "ok", "none", <<>>)
    /\ last_mut = [op |-> "none", ok |-> TRUE, again |-> FALSE]
    /\ loaded_after = {}
    /\ race = NoRace

MediaInit ==
    /\ HAS_WINSDK \in BOOLEAN
    /\ bridge = NewBridge
    /\ native = <<>>
    /\ display = NewDisplay
    /\ workers = <<>>
    /\ media_call = MediaCalled("none", "none", "None")
    /\ native_calls = <<>>
    /\ shut_down = FALSE
    /\ events = <<>>
    /\ callbacks = <<>>
    /\ last_push = NoMediaPush
    /\ StoreIdle
    /\ ShellIdle

MediaNext ==
    \/ \E fail_at \in FailPoints \cup {"none"} : initialize(fail_at)
    \/ \E is_playing \in BOOLEAN : \E f \in BOOLEAN : update_playback_status(is_playing, f)
    \/ \E track \in Tracks : \E f \in BOOLEAN :
       \E path \in (IF f THEN {""} ELSE ThumbnailPaths) :
          update_metadata(track, path, f, FALSE)
    \/ \E resolved \in BOOLEAN : thumbnail_worker(resolved)
    \/ \E position_ms \in {0, 1000} : update_position(position_ms)
    \/ \E f \in {"none", "remove", "disable"} : shutdown(f)

SpecMedia == MediaInit /\ [][MediaNext]_vars

\* The metadata pushes and their thumbnail threads on a bridge whose
\* initialize() and shutdown() meet no native failure.
ThumbnailsNext ==
    \/ initialize("none")
    \/ \E track \in Tracks : \E path \in ThumbnailPaths :
       \E f \in BOOLEAN : \E start_fails \in BOOLEAN :
          update_metadata(track, path, f, start_fails)
    \/ \E resolved \in BOOLEAN : thumbnail_worker(resolved)
    \/ shutdown("none")

\* A thumbnail thread that was started runs to its end.
SpecThumbnails ==
    /\ MediaInit
    /\ [][ThumbnailsNext]_vars
    /\ WF_vars(\E resolved \in BOOLEAN : thumbnail_worker(resolved))

\* A thumbnail thread running statement by statement beside initialize(),
\* update_metadata() and shutdown() on the main thread.
WorkersNext ==
    \/ initialize("none")
    \/ \E track \in Tracks : \E path \in ThumbnailPaths :
          update_metadata(track, path, FALSE, FALSE)
    \/ \E resolved \in BOOLEAN : worker_resolve(resolved)
    \/ worker_load
    \/ worker_use
    \/ shutdown("none")

SpecWorkers == MediaInit /\ [][WorkersNext]_vars

\* The bridge and the button events of the system, without the updates.
ButtonsNext ==
    \/ \E fail_at \in FailPoints \cup {"none"} : initialize(fail_at)
    \/ \E f \in {"none", "remove", "disable"} : shutdown(f)
    \/ \E p \in 1..MaxPlayers : \E button \in TransportButtons \cup {"record"} :
          on_button_pressed(p, button, FALSE)

SpecButtons == MediaInit /\ [][ButtonsNext]_vars

\* The button events of a bridge whose callbacks may raise.
CallbacksNext ==
    \/ \E fail_at \in {"none", "updater"} : initialize(fail_at)
    \/ shutdown("none")
    \/ \E p \in 1..MaxPlayers : \E button \in TransportButtons \cup {"record"} :
       \E callback_raises \in BOOLEAN :
          on_button_pressed(p, button, callback_raises)

SpecCallbacks == MediaInit /\ [][CallbacksNext]_vars

\* The bridge is Initialized.
Initialized == bridge.initialized

\* C10: while the bridge is not Initialized, update_playback_status,
\* update_metadata and update_position raise nothing and change neither a
\* native object, nor the set of workers, nor a field of the bridge.
C10_UpdatesBeforeInitializeAreNoOps ==
    [][(/\ ~Initialized
        /\ media_call'.op \in {"update_playback_status", "update_metadata",
                               "update_position"}) =>
         /\ media_call'.raised = "none"
         /\ native' = native
         /\ display' = display
         /\ workers' = workers
         /\ bridge' = bridge]_vars

\* update_metadata has returned on a bridge whose initialize() failed after
\* the listener was registered.
C10_Witness ==
    /\ media_call.op = "update_metadata"
    /\ ~Initialized
    /\ bridge.smtc # 0 /\ bridge.button_pressed_token # 0
    /\ bridge.display_updater # 0

(***************************************************************************)
(* WindowsNotifications: the operations                                    *)
(***************************************************************************)
\* "track_id and ...": None and the empty string are false.
TruthyId(track_id) == track_id # NoneId /\ track_id # ""

\* "if not self._enabled or not self._notifier: return False".
NotifyReturnsEarly(n) == ~n.enabled \/ ~n.notifier

\* A comparison that forgets the truth test of track_id.
SuppressedByEquality(n, track_id) == track_id = n.last_track_id

\* "if track_id and track_id == self._last_track_id: return False".
Suppressed(n, track_id) == TruthyId(track_id) /\ track_id = n.last_track_id

set_enabled(enabled) ==
    /\ notifications' = [notifications EXCEPT !.enabled = enabled]
    /\ notify_call' = NotifyCalled("set_enabled", NoneId, "None", FALSE)
    /\ UNCHANGED <<toasts, last_shown>>
    /\ UNCHANGED <<storeVars, mediaVars, registryVars, trayVars>>

\* start_fails: threading.Thread(...).start() raises; the handler logs it and
\* the method returns False, after _last_track_id was set.
show_now_playing(track_id, start_fails) ==
    /\ IF NotifyReturnsEarly(notifications) \/ Suppressed(notifications, track_id)
       THEN /\ notify_call' = NotifyCalled("show_now_playing", track_id, "False", FALSE)
            /\ UNCHANGED <<notifications, toasts, last_shown>>
       ELSE /\ notifications' = [notifications EXCEPT !.last_track_id = track_id]
            /\ IF start_fails
               THEN /\ notify_call' =
                          NotifyCalled("show_now_playing", track_id, "False", FALSE)
                    /\ UNCHANGED <<toasts, last_shown>>
               ELSE /\ toasts < MaxToasts
                    /\ toasts' = toasts + 1
                    /\ last_shown' = track_id
                    /\ notify_call' =
                          NotifyCalled("show_now_playing", track_id, "True", TRUE)
    /\ UNCHANGED <<storeVars, mediaVars, registryVars, trayVars>>

show_message(start_fails) ==
    /\ IF NotifyReturnsEarly(notifications) \/ start_fails
       THEN /\ notify_call' = NotifyCalled("show_message", NoneId, "False", FALSE)
            /\ UNCHANGED toasts
       ELSE /\ toasts < MaxToasts
            /\ toasts' = toasts + 1
            /\ notify_call' = NotifyCalled("show_message", NoneId, "True", TRUE)
    /\ UNCHANGED <<notifications, last_shown>>
    /\ UNCHANGED <<storeVars, mediaVars, registryVars, trayVars>>

\* A show_toast thread ends, the toast shown or the failure logged.
show_toast ==
    /\ toasts > 0
    /\ toasts' = toasts - 1
    /\ UNCHANGED <<notifications, notify_call, last_shown>>
    /\ UNCHANGED <<storeVars, mediaVars, registryVars, trayVars>>

(***************************************************************************)
(* WindowsNotifications: specification                                     *)
(***************************************************************************)
\* The instance as __init__ leaves it, with or without a notifier.
NotifyInit ==
    /\ notifications \in {NewNotifications(notifier) : notifier \in BOOLEAN}
    /\ toasts = 0
    /\ notify_call = NotifyCalled("none", NoneId, "None", FALSE)
    /\ last_shown = NothingShown
    /\ StoreIdle /\ MediaIdle /\ RegistryIdle /\ TrayIdle

\* Every thread the service starts does start.
NotifyNext ==
    \/ \E enabled \in BOOLEAN : set_enabled(enabled)
    \/ \E track_id \in TrackIds : show_now_playing(track_id, FALSE)
    \/ show_message(FALSE)
    \/ show_toast

SpecNotify == NotifyInit /\ [][NotifyNext]_vars

\* The start of a show_toast thread may also raise.
NotifyFaultNext ==
    \/ \E enabled \in BOOLEAN : set_enabled(enabled)
    \/ \E track_id \in TrackIds : \E start_fails \in BOOLEAN :
          show_now_playing(track_id, start_fails)
    \/ \E start_fails \in BOOLEAN : show_message(start_fails)
    \/ show_toast

SpecNotifyFault == NotifyInit /\ [][NotifyFaultNext]_vars

\* C15: with notifications enabled and a notifier, a show_now_playing that
\* follows one with the same non-empty track id returns False and starts no
\* thread, one that follows one with another track id starts a thread, and a
\* call is suppressed exactly when its track id is non-empty and is that of
\* the last toast dispatched.
C15_SameTrackShownOnce ==
    [][\A id \in TrackIds :
         (/\ show_now_playing(id, FALSE)
          /\ notifications.enabled /\ notifications.notifier) =>
            LET dispatched == /\ notify_call'.ret = "True" /\ notify_call'.started
                              /\ toasts' = toasts + 1
                suppressed == /\ notify_call'.ret = "False" /\ ~notify_call'.started
                              /\ toasts' = toasts
            IN  /\ dispatched \/ suppressed
                /\ suppressed <=> (id \in {"T1", "T2"} /\ id = last_shown)
                /\ (notify_call.op = "show_now_playing" /\ id \in {"T1", "T2"}
                      /\ notify_call.track_id = id) => suppressed
                /\ (notify_call.op = "show_now_playing" /\ notify_call.track_id # id)
                      => dispatched]_vars

\* T1 was shown and then suppressed when it was pushed again.
C15_Witness ==
    /\ notify_call = NotifyCalled("show_now_playing", "T1", "False", FALSE)
    /\ notifications.enabled /\ notifications.notifier
    /\ notifications.last_track_id = "T1" /\ last_shown = "T1"
    /\ toasts = 1

(***************************************************************************)
(* Startup registration: the operations                                    *)
(***************************************************************************)
\* get_startup_command(): <<command>>, or <<>> for None.
get_startup_command(rt) ==
    CASE rt = "frozen" -> <<"\"HighTide.exe\"">>
      [] rt = "script" -> <<"\"python.exe\" \"main.py\"">>
      [] OTHER -> <<>>

\* get_executable_path(): <<path>>, or <<>> for None.
get_executable_path(rt) ==
    CASE rt = "frozen" -> <<"HighTide.exe">>
      [] rt = "script" -> <<"python.exe\" \"main.py">>
      [] OTHER -> <<>>

\* An is_startup_enabled that stops at the key.
IsStartupEnabledByKey(win, value, cond) == win /\ cond # "open_error"

\* is_startup_enabled(): cond names the registry call that raises, OpenKey
\* ("open_error") or QueryValueEx with another error than FileNotFoundError
\* ("query_error").
IsStartupEnabled(win, value, cond) == win /\ cond = "ok" /\ value # <<>>

\* A set_startup_enabled that reports a value that was already absent.
SetStartupEnabledStrict(win, rt, value, enabled, cond) ==
    IF ~win \/ cond = "open_error" THEN [value |-> value, ret |-> FALSE]
    ELSE IF enabled
         THEN IF get_startup_command(rt) = <<>> \/ cond = "write_error"
              THEN [value |-> value, ret |-> FALSE]
              ELSE [value |-> get_startup_command(rt), ret |-> TRUE]
    ELSE IF cond = "delete_error" \/ value = <<>>
         THEN [value |-> value, ret |-> FALSE]
         ELSE [value |-> <<>>, ret |-> TRUE]

\* A set_startup_enabled that answers True whatever SetValueEx did.
SetStartupEnabledBlind(win, rt, value, enabled, cond) ==
    IF ~win \/ cond = "open_error" THEN [value |-> value, ret |-> FALSE]
    ELSE IF enabled
         THEN IF get_startup_command(rt) = <<>> THEN [value |-> value, ret |-> FALSE]
              ELSE IF cond = "write_error" THEN [value |-> value, ret |-> TRUE]
              ELSE [value |-> get_startup_command(rt), ret |-> TRUE]
    ELSE IF cond = "delete_error" THEN [value |-> value, ret |-> FALSE]
         ELSE [value |-> <<>>, ret |-> TRUE]

\* set_startup_enabled(enabled): [value, ret].  cond names the registry call
\* that raises: OpenKey ("open_error"), SetValueEx ("write_error") or
\* DeleteValue with another error than FileNotFoundError ("delete_error").
SetStartupEnabled(win, rt, value, enabled, cond) ==
    IF ~win \/ cond = "open_error" THEN [value |-> value, ret |-> FALSE]
    ELSE IF enabled
         THEN IF get_startup_command(rt) = <<>> \/ cond = "write_error"
              THEN [value |-> value, ret |-> FALSE]
              ELSE [value |-> get_startup_command(rt), ret |-> TRUE]
    ELSE IF cond = "delete_error" THEN [value |-> value, ret |-> FALSE]
         ELSE [value |-> <<>>, ret |-> TRUE]

Bool(b) == IF b THEN "True" ELSE "False"

is_startup_enabled(cond) ==
    /\ reg_call' = RegCalled("is_startup_enabled", "None", cond,
                             Bool(IsStartupEnabled(IS_WINDOWS, autostart, cond)),
                             "none", <<>>)
    /\ UNCHANGED <<runtime, autostart, protocol, last_ok, foreign, prefs>>
    /\ UNCHANGED <<storeVars, mediaVars, notifyVars, trayVars>>

set_startup_enabled(enabled, cond) ==
    /\ LET r == SetStartupEnabled(IS_WINDOWS, runtime, autostart, enabled, cond) IN
       /\ autostart' = r.value
       /\ reg_call' = [RegCalled("set_startup_enabled", Bool(enabled), cond,
                                 Bool(r.ret), "none", <<>>)
                          EXCEPT !.before = autostart]
       /\ last_ok' = IF r.ret THEN Bool(enabled) ELSE last_ok
    /\ UNCHANGED <<runtime, protocol, foreign, prefs>>
    /\ UNCHANGED <<storeVars, mediaVars, notifyVars, trayVars>>


(***************************************************************************)
(* Protocol registration: the operations                                   *)
(***************************************************************************)
Value(key, name, data) == [key |-> key, name |-> name, data |-> data]

\* winreg.SetValueEx: the value name of the key holds data.
SetValueEx(p, key, name, data) ==
    [p EXCEPT !.values = {v \in @ : ~(v.key = key /\ v.name = name)}
                            \cup {Value(key, name, data)}]

\* winreg.CreateKey: the key exists, and so does each ancestor of it.
CreateKey(p, key) ==
    [p EXCEPT !.keys = @ \cup {SubSeq(key, 1, n) : n \in 0..Len(key)}]

\* "{icon_path},0" with icon_path = executable.split('"')[0].
IconValue(rt) == IF rt = "frozen" THEN "HighTide.exe,0" ELSE "python.exe,0"

\* The command of shell\open\command.
OpenCommand(rt) ==
    IF rt = "frozen" THEN "\"HighTide.exe\" \"%1\""
    ELSE "\"python.exe\" \"main.py\" \"%1\""

\* The registry calls of register_protocol_handler, in the order of the code.
RegisterSteps ==
    <<"create_root", "set_root", "set_url", "create_icon", "set_icon",
      "create_command", "set_command">>

RegisterStep(p, rt, step) ==
    CASE step = "create_root" -> CreateKey(p, RootKey)
      [] step = "set_root" -> SetValueEx(p, RootKey, "", "URL:TIDAL Protocol")
      [] step = "set_url" -> SetValueEx(p, RootKey, "URL Protocol", "")
      [] step = "create_icon" -> CreateKey(p, DefaultIconKey)
      [] step = "set_icon" -> SetValueEx(p, DefaultIconKey, "", IconValue(rt))
      [] step = "create_command" -> CreateKey(p, CommandKey)
      [] step = "set_command" -> SetValueEx(p, CommandKey, "", OpenCommand(rt))

\* The steps from the k-th on; the step fail_at raises and the handler
\* returns False, what the earlier steps wrote stays.
RECURSIVE RegisterFrom(_, _, _, _)
RegisterFrom(p, rt, k, fail_at) ==
    IF k > Len(RegisterSteps) THEN [protocol |-> p, ret |-> TRUE]
    ELSE IF RegisterSteps[k] = fail_at THEN [protocol |-> p, ret |-> FALSE]
    ELSE RegisterFrom(RegisterStep(p, rt, RegisterSteps[k]), rt, k + 1, fail_at)

\* register_protocol_handler(): [protocol, ret].
RegisterProtocolHandler(win, rt, p, fail_at) ==
    IF ~win \/ get_executable_path(rt) = <<>> THEN [protocol |-> p, ret |-> FALSE]
    ELSE RegisterFrom(p, rt, 1, fail_at)

\* is_protocol_handler_registered(): cond "open_error" is an OpenKey that
\* raises another error than FileNotFoundError.
IsProtocolHandlerRegistered(win, p, cond) == win /\ cond = "ok" /\ RootKey \in p.keys

\* The subkeys of a key.
Children(keys, path) ==
    {k \in keys : Len(k) = Len(path) + 1 /\ SubSeq(k, 1, Len(path)) = path}

\* The place of a key name in the enumeration of the registry.
NameRank(name) == IF name = "DefaultIcon" THEN 1 ELSE 2

\* winreg.EnumKey(key, 0): the first subkey in the order the registry
\* enumerates them, "asc" or "desc".
EnumKey(keys, path, order) ==
    CHOOSE c \in Children(keys, path) :
        \A d \in Children(keys, path) :
            IF order = "asc" THEN NameRank(c[Len(c)]) <= NameRank(d[Len(d)])
            ELSE NameRank(c[Len(c)]) >= NameRank(d[Len(d)])

NoFault == [kind |-> "none", key |-> RootKey]

\* A loop that handles the first subkey only.
RECURSIVE delete_subkeys_once(_, _, _, _)

\* delete_key_recursive(root, path) on st = [keys, values, deleted, raised]:
\* raised tells that an OSError other than FileNotFoundError leaves the call.
\* fault names one key and the call that raises PermissionError on it: OpenKey
\* ("open"), EnumKey ("enum") or DeleteKey ("delete").  DeleteKey refuses a
\* key with subkeys.
RECURSIVE delete_key_recursive(_, _, _, _)

\* "while True: ... except OSError: break": the subkeys one by one, until
\* EnumKey finds none or the call for a subkey raises.
RECURSIVE delete_subkeys(_, _, _, _)

delete_subkeys_once(st, path, fault, order) ==
    IF Children(st.keys, path) = {} THEN st
    ELSE [delete_key_recursive(st, EnumKey(st.keys, path, order), fault, order)
             EXCEPT !.raised = FALSE]

delete_subkeys(st, path, fault, order) ==
    IF Children(st.keys, path) = {} \/ (fault.kind = "enum" /\ fault.key = path) THEN st
    ELSE LET r == delete_key_recursive(st, EnumKey(st.keys, path, order), fault, order)
         IN  IF r.raised THEN [r EXCEPT !.raised = FALSE]
             ELSE delete_subkeys(r, path, fault, order)

delete_key_recursive(st, path, fault, order) ==
    IF path \notin st.keys THEN st
    ELSE IF fault.kind = "open" /\ fault.key = path THEN [st EXCEPT !.raised = TRUE]
    ELSE LET r == delete_subkeys(st, path, fault, order) IN
         IF (fault.kind = "delete" /\ fault.key = path) \/ Children(r.keys, path) # {}
         THEN [r EXCEPT !.raised = TRUE]
         ELSE [r EXCEPT !.keys = @ \ {path},
                        !.values = {v \in @ : v.key # path},
                        !.deleted = Append(@, path)]

\* unregister_protocol_handler(): [protocol, ret, deleted].
UnregisterProtocolHandler(win, p, fault, order) ==
    IF ~win THEN [protocol |-> p, ret |-> FALSE, deleted |-> <<>>]
    ELSE LET r == delete_key_recursive(
                     [keys |-> p.keys, values |-> p.values, deleted |-> <<>>,
                      raised |-> FALSE], RootKey, fault, order)
         IN  [protocol |-> [keys |-> r.keys, values |-> r.values],
              ret |-> ~r.raised, deleted |-> r.deleted]

is_protocol_handler_registered(cond) ==
    /\ reg_call' = RegCalled("is_protocol_handler_registered", "None", cond,
                             Bool(IsProtocolHandlerRegistered(IS_WINDOWS, protocol, cond)),
                             "none", <<>>)
    /\ UNCHANGED <<runtime, autostart, protocol, last_ok, foreign, prefs>>
    /\ UNCHANGED <<storeVars, mediaVars, notifyVars, trayVars>>

register_protocol_handler(fail_at) ==
    /\ LET r == RegisterProtocolHandler(IS_WINDOWS, runtime, protocol, fail_at) IN
       /\ protocol' = r.protocol
       /\ reg_call' = RegCalled("register_protocol_handler", "None", fail_at,
                                Bool(r.ret), "none", <<>>)
    /\ UNCHANGED <<runtime, autostart, last_ok, foreign, prefs>>
    /\ UNCHANGED <<storeVars, mediaVars, notifyVars, trayVars>>

\* An unregistration that deletes from Software\Classes every key whose
\* name starts with the scheme's.
unregister_protocol_handler_by_prefix(fault, order) ==
    /\ LET r == UnregisterProtocolHandler(IS_WINDOWS, protocol, fault, order) IN
       /\ protocol' = r.protocol
       /\ reg_call' = RegCalled("unregister_protocol_handler", fault.key, fault.kind,
                                Bool(r.ret), "none", r.deleted)
    /\ foreign' = [foreign EXCEPT !.classes = @ \ {"tidal-old"}]
    /\ UNCHANGED <<runtime, autostart, last_ok, prefs>>
    /\ UNCHANGED <<storeVars, mediaVars, notifyVars, trayVars>>

unregister_protocol_handler(fault, order) ==
    /\ LET r == UnregisterProtocolHandler(IS_WINDOWS, protocol, fault, order) IN
       /\ protocol' = r.protocol
       /\ reg_call' = RegCalled("unregister_protocol_handler", fault.key, fault.kind,
                                Bool(r.ret), "none", r.deleted)
    /\ UNCHANGED <<runtime, autostart, last_ok, foreign, prefs>>
    /\ UNCHANGED <<storeVars, mediaVars, notifyVars, trayVars>>

(***************************************************************************)
(* The preferences dialog: the two switch rows and their handlers          *)
(***************************************************************************)
\* widget.set_active(value) on a row whose handler is connected: a changed
\* property is notified, and the notification runs the handler of the row;
\* an unchanged one is not.
SetActive(pf, row, value) ==
    IF pf[row] = value THEN pf
    ELSE [pf EXCEPT ![row] = value, !.notified = row]

\* The end of both handlers: "if not success: widget.set_active(not enabled)".
\* The delivery of the notification the handler was called for is over;
\* the revert starts the next one.
AfterMutation(pf, row, enabled, success) ==
    IF success THEN [pf EXCEPT !.notified = "none"]
    ELSE SetActive([pf EXCEPT !.notified = "none"], row, ~enabled)

\* _add_windows_preferences: each row takes the answer of its query before
\* its handler is connected.  The dialog is built on Windows only.
add_windows_preferences(cond_s, cond_p) ==
    /\ IS_WINDOWS
    /\ prefs.notified = "none"
    /\ prefs' = [open |-> TRUE,
                 startup |-> IsStartupEnabled(IS_WINDOWS, autostart, cond_s),
                 protocol |-> IsProtocolHandlerRegistered(IS_WINDOWS, protocol, cond_p),
                 notified |-> "none"]
    /\ reg_call' = RegCalled("is_protocol_handler_registered", "None", cond_p,
                             Bool(IsProtocolHandlerRegistered(IS_WINDOWS, protocol, cond_p)),
                             "none", <<>>)
    /\ UNCHANGED <<runtime, autostart, protocol, last_ok, foreign>>
    /\ UNCHANGED <<storeVars, mediaVars, notifyVars, trayVars>>

\* The user flips a switch of the dialog; the main loop is free.
user_toggles(row) ==
    /\ prefs.open
    /\ prefs.notified = "none"
    /\ prefs' = SetActive(prefs, row, ~prefs[row])
    /\ reg_call' = RegCalled("user_toggles", row, "ok", "None", "none", <<>>)
    /\ UNCHANGED <<runtime, autostart, protocol, last_ok, foreign>>
    /\ UNCHANGED <<storeVars, mediaVars, notifyVars, trayVars>>

\* _on_startup_toggled, called for notify::active of the startup row.
on_startup_toggled(cond) ==
    /\ prefs.notified = "startup"
    /\ LET enabled == prefs.startup
           r == SetStartupEnabled(IS_WINDOWS, runtime, autostart, enabled, cond)
       IN  /\ autostart' = r.value
           /\ reg_call' = [RegCalled("on_startup_toggled", Bool(enabled), cond,
                                     Bool(r.ret), "none", <<>>)
                              EXCEPT !.before = autostart]
           /\ last_ok' = IF r.ret THEN Bool(enabled) ELSE last_ok
           /\ prefs' = AfterMutation(prefs, "startup", enabled, r.ret)
    /\ UNCHANGED <<runtime, protocol, foreign>>
    /\ UNCHANGED <<storeVars, mediaVars, notifyVars, trayVars>>

\* _on_protocol_toggled, called for notify::active of the protocol row.
on_protocol_toggled(fail_at, fault, order) ==
    /\ prefs.notified = "protocol"
    /\ LET enabled == prefs.protocol
           r == IF enabled
                THEN RegisterProtocolHandler(IS_WINDOWS, runtime, protocol, fail_at)
                ELSE UnregisterProtocolHandler(IS_WINDOWS, protocol, fault, order)
       IN  /\ IF enabled THEN fault = NoFault /\ order = "asc" ELSE fail_at = "none"
           /\ protocol' = r.protocol
           /\ reg_call' = RegCalled("on_protocol_toggled", Bool(enabled),
                                    IF enabled THEN fail_at ELSE fault.kind,
                                    Bool(r.ret), "none", <<>>)
           /\ prefs' = AfterMutation(prefs, "protocol", enabled, r.ret)
    /\ UNCHANGED <<runtime, autostart, last_ok, foreign>>
    /\ UNCHANGED <<storeVars, mediaVars, notifyVars, trayVars>>

(***************************************************************************)
(* Startup and protocol registration: specification                        *)
(***************************************************************************)
\* The registry before the first call: no autostart value or one an earlier
\* installation left, no protocol subtree.
RegistryInit ==
    /\ IS_WINDOWS \in BOOLEAN
    /\ runtime \in {"frozen", "script", "unknown"}
    /\ autostart \in {<<>>, <<"\"Old.exe\"">>}
    /\ protocol = NoProtocol
    /\ reg_call = RegCalled("none", "None", "ok", "None", "none", <<>>)
    /\ last_ok = NoneOk
    /\ foreign = ForeignEntries
    /\ prefs = NoPrefs
    /\ session = SessionTable[1]
    /\ token_dictionary = [s \in Stores |-> Unconstructed]
    /\ backend = Absent
    /\ call = Called("none", "live", "ok", "none", <<>>)
    /\ last_mut = [op |-> "none", ok |-> TRUE, again |-> FALSE]
    /\ loaded_after = {}
    /\ race = NoRace
    /\ MediaIdle /\ NotifyIdle /\ TrayIdle

Faults ==
    {NoFault}
      \cup {[kind |-> k, key |-> key] : k \in {"open", "enum", "delete"},
                                       key \in ProtocolKeys}

RegistryNext ==
    \/ \E cond \in {"ok", "open_error", "query_error"} : is_startup_enabled(cond)
    \/ \E enabled \in BOOLEAN :
       \E cond \in {"ok", "open_error"} \cup (IF enabled THEN {"write_error"}
                                              ELSE {"delete_error"}) :
          set_startup_enabled(enabled, cond)
    \/ \E cond \in {"ok", "open_error"} : is_protocol_handler_registered(cond)
    \/ \E fail_at \in {"none"} \cup {RegisterSteps[k] : k \in 1..Len(RegisterSteps)} :
          register_protocol_handler(fail_at)
    \/ \E fault \in Faults : \E order \in {"asc", "desc"} :
          unregister_protocol_handler(fault, order)

SpecRegistry == RegistryInit /\ [][RegistryNext]_vars

\* The preferences dialog in use; a registry call of a handler may fail.
TogglesNext ==
    \/ \E cond_s \in {"ok", "open_error"} : \E cond_p \in {"ok", "open_error"} :
          add_windows_preferences(cond_s, cond_p)
    \/ \E row \in {"startup", "protocol"} : user_toggles(row)
    \/ \E cond \in {"ok", "open_error", "write_error", "delete_error"} :
          on_startup_toggled(cond)
    \/ \E fail_at \in {"none"} \cup {RegisterSteps[k] : k \in 1..Len(RegisterSteps)} :
       \E fault \in Faults : \E order \in {"asc", "desc"} :
          on_protocol_toggled(fail_at, fault, order)

\* A notification that is being delivered reaches its handler.
SpecToggles ==
    /\ RegistryInit
    /\ [][TogglesNext]_vars
    /\ WF_vars(\E cond \in {"ok", "open_error", "write_error", "delete_error"} :
                  on_startup_toggled(cond))
    /\ WF_vars(\E fail_at \in {"none"} \cup {RegisterSteps[k] : k \in 1..Len(RegisterSteps)} :
               \E fault \in Faults : \E order \in {"asc", "desc"} :
                  on_protocol_toggled(fail_at, fault, order))

\* C16: a set_startup_enabled(False) whose registry calls succeed returns
\* True and leaves the value absent, whether it found the value (written by an
\* enabling or otherwise) or found it absent already, and then it changes
\* nothing.
C16_DisableLeavesAbsent ==
    [][(/\ IS_WINDOWS
        /\ reg_call'.op = "set_startup_enabled"
        /\ reg_call'.arg = "False" /\ reg_call'.cond = "ok") =>
         /\ reg_call'.ret = "True" /\ reg_call'.raised = "none"
         /\ autostart' = <<>>
         /\ protocol' = protocol
         /\ autostart = <<>> => autostart' = autostart]_vars

\* The value an enabling wrote was deleted.
C16_Witness ==
    /\ reg_call.op = "set_startup_enabled" /\ reg_call.arg = "False"
    /\ reg_call.ret = "True"
    /\ runtime = "script" /\ reg_call.before = get_startup_command(runtime)
    /\ autostart = <<>>

\* C17: an is_startup_enabled() whose registry calls succeed returns True
\* exactly when the value is present, and that is the argument of the last
\* set_startup_enabled that returned True; an enabling that returns True
\* leaves the one value its command, also when that value was there already.
C17_StartupFollowsLastSuccess ==
    /\ (IS_WINDOWS /\ reg_call.op = "is_startup_enabled" /\ reg_call.cond = "ok") =>
          /\ reg_call.ret = Bool(autostart # <<>>)
          /\ last_ok # NoneOk => reg_call.ret = last_ok
    /\ (reg_call.op = "set_startup_enabled" /\ reg_call.arg = "True"
          /\ reg_call.ret = "True") =>
          /\ autostart = get_startup_command(runtime) /\ Len(autostart) = 1
          /\ reg_call.before = get_startup_command(runtime) => autostart = reg_call.before

\* is_startup_enabled() has answered True after an enabling.
C17_Witness ==
    /\ IS_WINDOWS /\ reg_call.op = "is_startup_enabled" /\ reg_call.cond = "ok"
    /\ reg_call.ret = "True" /\ last_ok = "True"
    /\ autostart = get_startup_command(runtime)

\* Every key and value register_protocol_handler writes is there.
Registered(p, rt) ==
    /\ {RootKey, DefaultIconKey, CommandKey} \subseteq p.keys
    /\ {Value(RootKey, "", "URL:TIDAL Protocol"), Value(RootKey, "URL Protocol", ""),
        Value(DefaultIconKey, "", IconValue(rt)),
        Value(CommandKey, "", OpenCommand(rt))} \subseteq p.values

\* C18: set_startup_enabled, register_protocol_handler and
\* unregister_protocol_handler raise nothing; they return False when a
\* registry call of theirs raises, and True only with the mutation done.
C18_RegistryFailureIsFalse ==
    [][/\ reg_call'.op = "set_startup_enabled" =>
            /\ reg_call'.raised = "none"
            /\ reg_call'.cond # "ok" => (reg_call'.ret = "False" /\ autostart' = autostart)
            /\ reg_call'.ret = "True" =>
                  autostart' = (IF reg_call'.arg = "True"
                                THEN get_startup_command(runtime) ELSE <<>>)
            /\ (reg_call'.ret = "True" /\ reg_call'.arg = "True") => autostart' # <<>>
       /\ reg_call'.op = "register_protocol_handler" =>
            /\ reg_call'.raised = "none"
            /\ reg_call'.cond # "none" => reg_call'.ret = "False"
            /\ reg_call'.ret = "True" => Registered(protocol', runtime)
       /\ reg_call'.op = "unregister_protocol_handler" =>
            /\ reg_call'.raised = "none"
            /\ (reg_call'.cond \in {"open", "delete"} /\ reg_call'.arg \in protocol.keys)
                  => reg_call'.ret = "False"
            /\ (reg_call'.cond = "enum" /\ Children(protocol.keys, reg_call'.arg) # {})
                  => reg_call'.ret = "False"
            /\ reg_call'.ret = "True" => protocol'.keys = {}]_vars

\* A registration has failed part-way and returned False.
C18_Witness ==
    /\ reg_call.op = "register_protocol_handler"
    /\ reg_call.cond = "set_icon" /\ reg_call.ret = "False"
    /\ DefaultIconKey \in protocol.keys /\ CommandKey \notin protocol.keys

\* k is below the key a.
Below(k, a) == Len(k) > Len(a) /\ SubSeq(k, 1, Len(a)) = a

\* C19: an unregister_protocol_handler deletes each key after all the keys
\* below it and the root key last; with no registry call raising it returns
\* True for every tree, whole, partial or absent; and when it returns True no
\* key of the subtree is left and is_protocol_handler_registered() is False.
C19_UnregisterDeletesBottomUp ==
    [][(IS_WINDOWS /\ reg_call'.op = "unregister_protocol_handler") =>
         LET log == reg_call'.deleted IN
         /\ \A j \in 1..Len(log) :
               /\ log[j] \in protocol.keys
               /\ \A k \in protocol.keys :
                     Below(k, log[j]) => \E i \in 1..(j - 1) : log[i] = k
         /\ \A i \in 1..Len(log) : log[i] = RootKey => i = Len(log)
         /\ protocol'.keys = protocol.keys \ {log[j] : j \in 1..Len(log)}
         /\ reg_call'.cond = "none" => reg_call'.ret = "True"
         /\ reg_call'.ret = "True" =>
               /\ protocol'.keys = {}
               /\ ~IsProtocolHandlerRegistered(IS_WINDOWS, protocol', "ok")]_vars

\* A whole subtree was deleted.
C19_Witness ==
    /\ reg_call.op = "unregister_protocol_handler" /\ reg_call.ret = "True"
    /\ Len(reg_call.deleted) = 5
    /\ protocol = NoProtocol

(***************************************************************************)
(* WindowsTrayIcon: the operations                                         *)
(***************************************************************************)
\* The most icons one run creates.
MaxIcons == 2

\* What update_state is called with: nothing playing, or a track.
TrayTracks ==
    {[title |-> "", artist |-> ""], [title |-> "Song", artist |-> "Artist"]}

\* pystray.Icon("high-tide", image, "High Tide", menu): the loop has not run.
NewIcon ==
    [state |-> "created", ran |-> FALSE, title |-> <<"High Tide">>,
     image |-> "placeholder"]

\* What icon_path can name: nothing (None or ""), a path that does not exist,
\* an .svg file (cairosvg missing, the conversion or the opening of its
\* result failing, or all well), another file that Image.open rejects or opens.
IconAssets ==
    {"none", "missing", "svg_no_cairosvg", "svg_bad", "svg", "raster_bad",
     "raster"}

\* _load_icon_image with no try around the conversions: theirs is the outcome.
LoadIconImageUnguarded(asset, draw_fails) ==
    IF asset \in {"svg", "raster"} THEN "file"
    ELSE IF asset \in {"svg_no_cairosvg", "svg_bad", "raster_bad"} \/ draw_fails
         THEN "raise"
         ELSE "placeholder"

\* _load_icon_image: the image of the file, the drawn placeholder when there
\* is no file or it cannot be converted, and "raise" when drawing the
\* placeholder raises (draw_fails).
LoadIconImage(asset, draw_fails) ==
    IF asset \in {"svg", "raster"} THEN "file"
    ELSE IF draw_fails THEN "raise" ELSE "placeholder"

\* The statements of start() that can raise, in order.
StartSteps == <<"image", "Menu", "Icon", "Thread", "Thread.start">>

\* How many statements of start() complete when the one named fail_at raises.
Completed(fail_at) ==
    IF fail_at = "none" THEN Len(StartSteps)
    ELSE (CHOOSE k \in 1..Len(StartSteps) : StartSteps[k] = fail_at) - 1

\* start(): the fields, the icons, the result and the native calls made.
Start(has, tr, ics, asset, fail_at) ==
    LET image == LoadIconImage(asset, fail_at = "image")
        raises == IF image = "raise" THEN "image"
                  ELSE IF fail_at = "image" THEN "none" ELSE fail_at
        done == Completed(raises)
        new == Len(ics) + 1
        icon == [NewIcon EXCEPT !.state = IF done >= 5 THEN "running" ELSE @,
                                !.ran = done >= 5,
                                !.image = image]
    IN  IF ~has
        THEN [tray |-> tr, icons |-> ics, ret |-> "False", calls |-> <<>>]
        ELSE [tray |-> [tr EXCEPT !.icon = IF done >= 3 THEN new ELSE @,
                                  !.thread = IF done >= 4 THEN new ELSE @],
              icons |-> IF done >= 3 THEN Append(ics, icon) ELSE ics,
              ret |-> IF raises = "none" THEN "True" ELSE "False",
              calls |-> SubSeq(StartSteps, 1,
                               IF done < Len(StartSteps) THEN done + 1 ELSE done)]

\* stop() without its guard's effect on the field: the reference is kept.
StoppedKeepsIcon(tr) == tr

\* self._icon = None
Stopped(tr) == [tr EXCEPT !.icon = 0]

\* The native calls of stop(): self._icon.stop() under "if self._icon".
StopCalls(tr) ==
    IF tr.icon # 0 THEN <<[name |-> "stop", icon |-> tr.icon]>> ELSE <<>>

\* The tooltip update_state computes.
Tooltip(is_playing, title, artist) ==
    (IF title # "" THEN <<"High Tide - ", title>> ELSE <<"High Tide">>)
      \o (IF artist # "" THEN <<" by ", artist>> ELSE <<>>)
      \o (IF ~is_playing /\ title # "" THEN <<" (Paused)">> ELSE <<>>)

\* fail_at: the statement that raises; "image" is the drawing of the
\* placeholder, reached only when no file was loaded.
start(asset, fail_at) ==
    LET r == Start(HAS_PYSTRAY, tray, icons, asset, fail_at)
    IN  /\ Len(icons) < MaxIcons
        /\ fail_at # "none" => HAS_PYSTRAY
        /\ fail_at = "image" => LoadIconImage(asset, FALSE) = "placeholder"
        /\ tray' = r.tray
        /\ icons' = r.icons
        /\ tray_call' = [TrayCalled("start", r.ret, "none", r.calls)
                             EXCEPT !.arg = asset, !.cond = fail_at]
        /\ UNCHANGED <<pushed, HAS_PYSTRAY, storeVars, mediaVars, notifyVars, registryVars>>

\* native_fails: self._icon.stop() raises, which stop() passes over.
stop(native_fails) ==
    /\ native_fails => tray.icon # 0
    /\ tray' = IF tray.icon # 0 THEN Stopped(tray) ELSE tray
    /\ icons' = IF tray.icon # 0 /\ ~native_fails
                THEN [icons EXCEPT ![tray.icon].state = "stopped"]
                ELSE icons
    /\ tray_call' = TrayCalled("stop", "None", "none", StopCalls(tray))
    /\ UNCHANGED <<pushed, HAS_PYSTRAY, storeVars, mediaVars, notifyVars, registryVars>>

\* native_fails: the assignment to self._icon.title raises, which is passed over.
update_state(is_playing, title, artist, native_fails) ==
    /\ native_fails => tray.icon # 0
    /\ tray' = [tray EXCEPT !.is_playing = is_playing,
                            !.current_title = IF title # "" THEN title
                                              ELSE "High Tide",
                            !.current_artist = artist]
    /\ icons' = IF tray.icon # 0 /\ ~native_fails
                THEN [icons EXCEPT ![tray.icon].title =
                                       Tooltip(is_playing, title, artist)]
                ELSE icons
    /\ tray_call' = [TrayCalled("update_state", "None", "none",
                                IF tray.icon # 0
                                THEN <<[name |-> "title", icon |-> tray.icon]>>
                                ELSE <<>>)
                       EXCEPT !.cond = IF native_fails THEN "title" ELSE "none"]
    /\ pushed' = [is_playing |-> is_playing, title |-> title, artist |-> artist]
    /\ UNCHANGED <<HAS_PYSTRAY, storeVars, mediaVars, notifyVars, registryVars>>

\* The items of the menu start() builds that have a handler.
MenuItems == {"show", "play_pause", "next", "previous", "quit"}

\* The callback the handler of an item calls: _on_show_clicked calls
\* self.on_show, and so on.
MenuCallback(item) ==
    CASE item = "show" -> "on_show"
      [] item = "play_pause" -> "on_play_pause"
      [] item = "next" -> "on_next"
      [] item = "previous" -> "on_previous"
      [] item = "quit" -> "on_quit"

\* A quit handler whose stop() lets the failure of the icon through.
MenuCallsStopPropagates(tr, item, native_fails) ==
    IF item = "quit"
    THEN StopCalls(tr) \o (IF native_fails THEN <<>>
                           ELSE <<[name |-> MenuCallback(item), icon |-> 0]>>)
    ELSE <<[name |-> MenuCallback(item), icon |-> 0]>>

\* What the handler of an item calls, in order: the callback, for Quit after
\* self.stop(), whose try passes over a failing icon.stop().
MenuCalls(tr, item, native_fails) ==
    (IF item = "quit" THEN StopCalls(tr) ELSE <<>>)
        \o <<[name |-> MenuCallback(item), icon |-> 0]>>

\* pystray calls the handler of an item of the menu of the running icon i.
\* native_fails: the icon.stop() of the Quit handler raises.
menu_activated(i, item, native_fails) ==
    /\ i \in 1..Len(icons)
    /\ icons[i].state = "running"
    /\ native_fails => (item = "quit" /\ tray.icon # 0)
    /\ tray' = IF item = "quit" /\ tray.icon # 0 THEN Stopped(tray) ELSE tray
    /\ icons' = IF item = "quit" /\ tray.icon # 0 /\ ~native_fails
                THEN [icons EXCEPT ![tray.icon].state = "stopped"]
                ELSE icons
    /\ tray_call' = [TrayCalled("menu", "None", "none",
                                MenuCalls(tray, item, native_fails))
                       EXCEPT !.arg = item,
                              !.cond = IF native_fails THEN "stop" ELSE "none"]
    /\ UNCHANGED <<pushed, HAS_PYSTRAY, storeVars, mediaVars, notifyVars, registryVars>>

\* A WindowsTrayIcon just constructed; nothing else is in use.
TrayInit ==
    /\ HAS_PYSTRAY \in BOOLEAN
    /\ tray = NewTray
    /\ icons = <<>>
    /\ tray_call = TrayCalled("none", "None", "none", <<>>)
    /\ pushed = NoPush
    /\ StoreIdle /\ MediaIdle /\ NotifyIdle /\ RegistryIdle

TrayNext ==
    \/ \E asset \in {"none", "raster"} :
       \E fail_at \in {"none"} \cup {StartSteps[k] : k \in 1..Len(StartSteps)} :
          start(asset, fail_at)
    \/ \E native_fails \in BOOLEAN : stop(native_fails)
    \/ \E is_playing \in BOOLEAN : \E track \in TrayTracks :
       \E native_fails \in BOOLEAN :
          update_state(is_playing, track.title, track.artist, native_fails)

SpecTray == TrayInit /\ [][TrayNext]_vars

\* The icons of a controller whose state is never pushed: start() with every
\* asset, and stop().
IconsNext ==
    \/ \E asset \in IconAssets :
       \E fail_at \in {"none"} \cup {StartSteps[k] : k \in 1..Len(StartSteps)} :
          start(asset, fail_at)
    \/ \E native_fails \in BOOLEAN : stop(native_fails)

SpecIcons == TrayInit /\ [][IconsNext]_vars

\* The icon started and stopped by the application, and its menu used.
MenuNext ==
    \/ \E asset \in {"none", "raster"} : \E fail_at \in {"none", "Thread.start"} :
          start(asset, fail_at)
    \/ \E native_fails \in BOOLEAN : stop(native_fails)
    \/ \E i \in 1..MaxIcons : \E item \in MenuItems : \E native_fails \in BOOLEAN :
          menu_activated(i, item, native_fails)

SpecMenu == TrayInit /\ [][MenuNext]_vars

\* The controller references no icon whose loop runs.
NoRunningIcon == tray.icon = 0 \/ icons[tray.icon].state # "running"

\* A call of stop().
StopStep == \E native_fails \in BOOLEAN : stop(native_fails)

\* C20 as stated: a stop() called while the controller references no running
\* icon raises nothing, makes no native call and leaves the fields as they
\* were; after any stop() the controller references no icon.
C20_StopWithoutRunningIconIsNoOp ==
    [][StopStep =>
          /\ tray_call'.raised = "none"
          /\ tray'.icon = 0
          /\ NoRunningIcon => /\ tray_call'.calls = <<>>
                              /\ tray' = tray
                              /\ icons' = icons]_vars

\* C20: stop() raises nothing and leaves no icon reference; while the
\* controller references no icon (before start(), after a start() that failed
\* before the icon was created, after a stop()) it makes no native call and
\* changes nothing; while it references one, running or never run, it calls
\* that icon's stop() once, clears the reference and touches no other field
\* and no other icon.
C20_StopReleasesIcon ==
    [][StopStep =>
          /\ tray_call'.raised = "none"
          /\ tray'.icon = 0
          /\ tray.icon = 0 => /\ tray_call'.calls = <<>>
                              /\ tray' = tray
                              /\ icons' = icons
          /\ tray.icon # 0 =>
                /\ tray_call'.calls = <<[name |-> "stop", icon |-> tray.icon]>>
                /\ tray' = [tray EXCEPT !.icon = 0]
                /\ \A i \in 1..Len(icons) :
                      i # tray.icon => icons'[i] = icons[i]]_vars

\* stop() was called after a start() that created the icon and failed to
\* launch its thread: the icon never ran, stop() called its stop() and the
\* reference is gone.
C20_Witness ==
    /\ tray_call.op = "stop"
    /\ tray_call.calls # <<>>
    /\ ~icons[tray_call.calls[1].icon].ran
    /\ tray.icon = 0

\* The statement of start() that raises, or "none".
StartFails == {"none"} \cup {StartSteps[k] : k \in 1..Len(StartSteps)}

\* The asset names a file that the loader turns into an image.
Loadable(asset) == asset \in {"svg", "raster"}

\* C21: start() never raises; with the tray library available and no
\* statement that builds or launches the icon raising, it returns True
\* whatever the icon asset, with a new icon whose loop runs on a new thread
\* and whose image is the drawn placeholder whenever the asset is absent,
\* missing or cannot be converted; it returns False only without the library
\* or when such a statement raises.
C21_StartSucceedsWhateverTheAsset ==
    [][tray_call'.op = "start" =>
          /\ tray_call'.raised = "none"
          /\ (HAS_PYSTRAY /\ tray_call'.cond = "none") =>
                 /\ tray_call'.ret = "True"
                 /\ tray'.icon = Len(icons) + 1
                 /\ tray'.thread = tray'.icon
                 /\ Len(icons') = Len(icons) + 1
                 /\ icons'[tray'.icon].state = "running"
                 /\ icons'[tray'.icon].image =
                       IF Loadable(tray_call'.arg) THEN "file" ELSE "placeholder"
          /\ tray_call'.ret = "False" =>
                 ~HAS_PYSTRAY \/ tray_call'.cond # "none"]_vars

\* start() was given a file that Image.open rejects and returned True with
\* the placeholder on a running icon.
C21_Witness ==
    /\ tray_call.op = "start" /\ tray_call.arg = "raster_bad"
    /\ tray_call.ret = "True"
    /\ tray.icon # 0
    /\ icons[tray.icon].state = "running"
    /\ icons[tray.icon].image = "placeholder"

\* The label of the play/pause menu item: the lambda given to MenuItem.
MenuLabel(tr) == IF tr.is_playing THEN "Pause" ELSE "Play"

\* C22: whenever the controller's icon is running and update_state has been
\* called, also before start(), the icon's tooltip is the one computed from
\* the arguments of the last call, and the play/pause label is "Pause"
\* exactly when the last is_playing was true.
C22_TrayStateFollowsLastPush ==
    (tray.icon # 0 /\ icons[tray.icon].state = "running" /\ pushed # NoPush) =>
       /\ icons[tray.icon].title =
             Tooltip(pushed.is_playing, pushed.title, pushed.artist)
       /\ MenuLabel(tray) = "Pause" <=> pushed.is_playing

\* What does hold of the tray state: the label follows the last push, and an
\* update_state that repeats the last arguments with the same native outcome
\* changes nothing more.
TrayLabelFollowsLastPush ==
    pushed # NoPush => (MenuLabel(tray) = "Pause" <=> pushed.is_playing)

UpdateStateIdempotent ==
    [][(tray_call'.op = "update_state" /\ tray_call.op = "update_state"
          /\ pushed' = pushed /\ tray_call'.cond = tray_call.cond)
         => (tray' = tray /\ icons' = icons)]_vars

\* The display shows the properties last set on the updater.
Committed ==
    /\ display.shown # <<>>
    /\ display.shown[1].props = display.props

\* C23: an update_metadata on an Initialized bridge with an existing
\* thumbnail path sets the properties, starts a worker and returns without
\* the display update having been issued; a worker that ends raises nothing
\* into any caller and, while the bridge holds its updater, issues the update
\* whether or not the file was resolved; and properties set and not yet
\* shown while a worker runs are in the end shown, unless the bridge gives up
\* its updater first.
C23_ThumbnailWorkerCommits ==
    /\ [][(media_call'.op = "update_metadata" /\ Len(workers') > Len(workers)) =>
             /\ Initialized
             /\ media_call'.raised = "none"
             /\ workers' = Append(workers, workers'[Len(workers')])
             /\ PathExists(workers'[Len(workers')].path)
             /\ display'.props = bridge'.current
             /\ display'.shown = display.shown
             /\ \A k \in 1..Len(native_calls') : native_calls'[k].name # "update"]_vars
    /\ [][media_call'.op = "thumbnail_worker" =>
             /\ media_call'.raised = "none"
             /\ workers' = Tail(workers)
             /\ bridge' = bridge
             /\ bridge.display_updater # 0 =>
                    /\ native_calls'[Len(native_calls')] = Returned("update")
                    /\ display'.props = display.props
                    /\ Committed']_vars
    /\ (workers # <<>> /\ ~Committed /\ bridge.display_updater # 0)
          ~> (Committed \/ bridge.display_updater = 0)

\* A worker has ended without resolving the file on a bridge that holds its
\* updater, and the display shows the pushed track without a thumbnail.
C23_Witness ==
    /\ media_call.op = "thumbnail_worker"
    /\ native_calls = <<Returned("update")>>
    /\ bridge.display_updater # 0
    /\ Committed
    /\ display.props # NoTrack
    /\ display.thumbnail = ""

\* C24: update_position changes no field of the bridge, makes no native
\* call, touches neither the display nor a worker and raises nothing,
\* whatever the state of the bridge.
C24_UpdatePositionIsNoOp ==
    [][media_call'.op = "update_position" =>
          /\ media_call'.raised = "none"
          /\ media_call'.ret = "None"
          /\ native_calls' = <<>>
          /\ bridge' = bridge
          /\ native' = native
          /\ display' = display
          /\ workers' = workers]_vars

\* update_position has returned on an Initialized bridge that shows a track.
C24_Witness ==
    /\ media_call.op = "update_position"
    /\ Initialized
    /\ display.shown # <<>>

\* The positions of the calls named name among the calls cs.
Positions(cs, name) == {k \in 1..Len(cs) : cs[k].name = name}

\* C25: a secret-service constructor looks the password up at most once and
\* last; where there is a default collection its lock is tested before the
\* lookup; the unlock is requested, once and before the lookup, exactly when
\* the collection is locked.
C25_LockCheckedBeforeLookup ==
    (call.op = "construct" /\ ~IS_WINDOWS) =>
       LET cs == call.calls
           lookups == Positions(cs, "password_lookup_sync")
           tests == Positions(cs, "get_locked")
           unlocks == Positions(cs, "unlock_sync")
       IN  /\ lookups \subseteq {Len(cs)}
           /\ call.cond \notin {"no_service", "no_collection"} =>
                  \A l \in lookups : \E t \in tests : t < l
           /\ Locked(call.cond) =>
                  \A l \in lookups : \E u \in unlocks : u < l
           /\ Cardinality(unlocks) = IF Locked(call.cond) THEN 1 ELSE 0
           /\ \A u \in unlocks : \E t \in tests : t < u
           /\ (call.raised = "none") = (lookups # {} /\ ~cs[Len(cs)].raised)

\* A constructor found the collection locked, asked for the unlock, looked
\* the password up and loaded the credentials.
C25_Witness ==
    /\ call.op = "construct" /\ ~IS_WINDOWS
    /\ call.cond = "locked_unlocks"
    /\ call.raised = "none"
    /\ Positions(call.calls, "unlock_sync") # {}
    /\ IsBundle(token_dictionary[call.store])
    /\ HasCredentials(token_dictionary[call.store]).ret = <<TRUE>>

\* The keys of the subtree that hold a value.
ValueKeys(p) == {v.key : v \in p.values}

\* C26: no registry operation changes anything but the HighTide value of the
\* Run key and the keys and values of the tidal subtree; the autostart calls
\* leave the subtree as it was, the protocol calls leave the autostart value
\* as it was, and the two queries change nothing.
C26_RegistryFootprint ==
    [][/\ foreign' = foreign
       /\ protocol'.keys \subseteq ProtocolKeys
       /\ ValueKeys(protocol') \subseteq ProtocolKeys
       /\ reg_call'.op \in {"is_startup_enabled", "is_protocol_handler_registered"} =>
             autostart' = autostart /\ protocol' = protocol
       /\ reg_call'.op = "set_startup_enabled" =>
             /\ protocol' = protocol
             /\ autostart' \in {autostart, <<>>, get_startup_command(runtime)}
       /\ reg_call'.op \in {"register_protocol_handler",
                            "unregister_protocol_handler"} =>
             autostart' = autostart]_vars

\* An unregistration has deleted the whole subtree while the autostart value
\* and the entries of other programs are in place.
C26_Witness ==
    /\ reg_call.op = "unregister_protocol_handler"
    /\ Len(reg_call.deleted) = 5
    /\ protocol = NoProtocol
    /\ autostart = get_startup_command(runtime) /\ autostart # <<>>
    /\ foreign = ForeignEntries

\* A statement of save(), and one of clear(), on the live store.
SaveStep == save_assign("live") \/ save_dumps("live") \/ save_write("live")
ClearStep == clear_dict("live") \/ clear_delete("live")

\* C27: save() and clear() are not guarded against each other: on a
\* constructed store the next statement of save() can be taken wherever
\* clear() stands, and the next statement of clear() wherever save() stands.
C27_SaveAndClearUnguarded ==
    Live # Unconstructed => (ENABLED SaveStep /\ ENABLED ClearStep)

\* A save() and a clear() that overlapped have both ended; the bundle in
\* memory is empty while the backend holds a full one, and a fresh store
\* loaded from it has answered has_credentials() with true.
C27_Witness ==
    /\ race.save_pc = "idle" /\ race.clear_pc = "idle" /\ race.overlapped
    /\ last_mut.op = "save"
    /\ Live = EmptyDict
    /\ "fresh" \in loaded_after
    /\ call.op = "has_credentials" /\ call.store = "fresh" /\ call.ret = <<TRUE>>

\* The players on whose session a listener of the bridge is registered.
Listening == {p \in 1..Len(native) : native[p].listeners # {}}

\* C28: at any time the bridge holds at most one playback-session handle and
\* at most one of its button listeners is registered, also after a second
\* initialize(); and a bridge that shutdown() left holds no handle and has no
\* listener registered.
C28_OneSessionOneListener ==
    /\ bridge.media_player \in 0..Len(native)
    /\ Cardinality(Listening) <= 1
    /\ (media_call.op = "shutdown") =>
          (bridge.media_player = 0 /\ Listening = {})

\* The icons whose loop runs, each on its own thread.
RunningIcons == {i \in 1..Len(icons) : icons[i].state = "running"}

\* C29: at any time at most one icon of the controller, and so one icon
\* thread, is alive; a running icon is the one the controller references,
\* so that the next stop() reaches it; and after a stop() none runs.
C29_OneIconOneThread ==
    /\ Cardinality(RunningIcons) <= 1
    /\ \A i \in RunningIcons : tray.icon = i
    /\ tray_call.op = "stop" => RunningIcons = {}

\* C30: after any sequence of save() and clear() calls, one at a time and
\* with a backend that does not fail, has_credentials() answers the same on
\* the live store and on a store loaded from the backend now, and where it
\* answers true get() returns the same triple on both.
C30_MemoryAgreesWithBackend ==
    (Live # Unconstructed /\ last_mut.op # "none") =>
       LET fresh == Reload.td IN
       /\ Reload.raised = "none"
       /\ HasCredentials(Live) = HasCredentials(fresh)
       /\ HasCredentials(Live).ret = <<TRUE>> => Get(Live) = Get(fresh)

\* After a clear() and then a save(), a store constructed from the backend
\* has returned from get() the triple the live store holds.
C30_Witness ==
    /\ last_mut.op = "save" /\ ~last_mut.again
    /\ "fresh" \in loaded_after
    /\ call.op = "get" /\ call.store = "fresh" /\ call.raised = "none"
    /\ HasCredentials(Live).ret = <<TRUE>>
    /\ call.ret = Get(Live).ret
    /\ backend.present

\* The bridge holds no reference to a native object.
Released ==
    /\ bridge.media_player = 0 /\ bridge.smtc = 0
    /\ bridge.display_updater = 0 /\ bridge.button_pressed_token = 0

UpdateOps == {"update_playback_status", "update_metadata", "update_position"}

C12_ShutdownIdempotent ==
    [][media_call'.op = "shutdown" =>
         /\ media_call'.raised = "none"
         /\ Released' /\ ~Initialized'
         /\ (Released /\ ~Initialized) =>
               /\ native_calls' = <<>>
               /\ bridge' = bridge /\ native' = native /\ display' = display
               /\ workers' = workers
         /\ (Initialized /\ \A k \in 1..Len(native_calls') : ~native_calls'[k].raised) =>
               /\ native_calls' = <<Returned("remove_button_pressed"),
                                    Returned("is_enabled")>>
               /\ native'[bridge.smtc].listeners = {}
               /\ ~native'[bridge.smtc].is_enabled]_vars

\* A second shutdown() has returned on a bridge that was Initialized.
C12_Witness ==
    /\ media_call.op = "shutdown" /\ native_calls = <<>>
    /\ shut_down /\ Released
    /\ Len(native) > 0 /\ native[Len(native)].listeners = {}
    /\ native[Len(native)].buttons = TransportButtons
    /\ ~native[Len(native)].is_enabled

SameName ==
    [b \in TransportButtons |->
        CASE b = "play" -> "on_play" [] b = "pause" -> "on_pause"
          [] b = "next" -> "on_next" [] b = "previous" -> "on_previous"
          [] b = "stop" -> "on_stop"]

IsTransportButton(b) == b \in TransportButtons

\* C14: the callbacks invoked are, in order, those of the same name as the
\* button codes delivered, one for each known code and none for another code;
\* on_play_pause is not among them.
C14_CallbacksFollowEvents ==
    LET known == SelectSeq(events, IsTransportButton) IN
    /\ callbacks = [k \in 1..Len(known) |-> SameName[known[k]]]
    /\ \A k \in 1..Len(callbacks) : callbacks[k] # "on_play_pause"

\* Two different buttons and an unknown code were delivered to an Initialized
\* bridge.
C14_Witness ==
    /\ Initialized /\ media_call.op = "on_button_pressed"
    /\ Len(events) >= 2 /\ Len(callbacks) = Len(events) - 1
    /\ \E k \in 1..Len(events) : events[k] = "record"
    /\ \E k \in 1..Len(events) : events[k] = "play"

\* An Initialized bridge holds its player, its transport controls, its
\* display updater and the token of its listener.
InitializedHoldsReferences ==
    Initialized =>
       /\ bridge.media_player # 0 /\ bridge.smtc # 0
       /\ bridge.display_updater # 0 /\ bridge.button_pressed_token # 0

\* C31: an Initialized bridge holds its player, transport controls, display
\* updater and listener token; and when the bridge is not Initialized after
\* a failed initialize() or a shutdown(), no listener of the bridge is
\* registered on a session and no session is enabled.
C31_InitializedMeansAcquired ==
    /\ InitializedHoldsReferences
    /\ (~Initialized /\ media_call.op \in {"initialize", "shutdown"}) =>
          \A p \in 1..Len(native) :
             native[p].listeners = {} /\ ~native[p].is_enabled

\* initialize() returns True when it leaves the bridge Initialized and
\* nothing true otherwise.
InitializeTruthyIffInitialized ==
    media_call.op = "initialize" => (media_call.ret = "True" <=> Initialized)

\* C32: initialize() returns a boolean: True exactly when the bridge is
\* Initialized after the call, False on every failure path.
C32_InitializeReturnsOutcome ==
    media_call.op = "initialize" =>
       /\ media_call.ret \in {"True", "False"}
       /\ media_call.ret = "True" <=> Initialized

\* What is_protocol_handler_registered() answers on the subtree p when its
\* OpenKey meets no other error.
Observed(p) == IsProtocolHandlerRegistered(IS_WINDOWS, p, "ok")

\* A register_protocol_handler that returns True leaves the three keys, and
\* a second registration leaves the same subtree; one that returns False
\* without a registry call of its own having raised changes nothing.
RegisterSuccessComplete ==
    [][reg_call'.op = "register_protocol_handler" =>
         /\ reg_call'.ret = "True" =>
               /\ {RootKey, DefaultIconKey, CommandKey} \subseteq protocol'.keys
               /\ RegisterProtocolHandler(IS_WINDOWS, runtime, protocol', "none")
                     = [protocol |-> protocol', ret |-> TRUE]
         /\ (reg_call'.ret = "False" /\ reg_call'.cond = "none") =>
               protocol' = protocol]_vars

\* C33: a register_protocol_handler that returns False leaves the answer of
\* is_protocol_handler_registered() as it was before the call; one that
\* returns True leaves the root, DefaultIcon and shell\open\command keys, and
\* calling it again leaves the same subtree.
C33_RegisterAllOrNothing ==
    [][reg_call'.op = "register_protocol_handler" =>
         /\ reg_call'.ret = "False" => Observed(protocol') = Observed(protocol)
         /\ reg_call'.ret = "True" =>
               /\ {RootKey, DefaultIconKey, CommandKey} \subseteq protocol'.keys
               /\ RegisterProtocolHandler(IS_WINDOWS, runtime, protocol', "none")
                     = [protocol |-> protocol', ret |-> TRUE]]_vars

\* The registry as the row's query sees it.
RegisteredState(row, value, p) ==
    IF row = "startup" THEN value # <<>> ELSE RootKey \in p.keys

ToggleOps == {"on_startup_toggled", "on_protocol_toggled"}

\* A handler whose registry mutation failed puts the switch back, and one
\* that ends the chain leaves the switch of its row equal to the registry.
ToggleRevertsOnFailure ==
    [][reg_call'.op \in ToggleOps =>
         LET row == prefs.notified IN
         /\ reg_call'.ret = "False" => (prefs'[row] = ~prefs[row] /\ prefs'.notified = row)
         /\ reg_call'.ret = "True" => (prefs'[row] = prefs[row] /\ prefs'.notified = "none")
         /\ prefs'.notified = "none" => (prefs'[row] <=> RegisteredState(row, autostart', protocol'))]_vars

\* C34: a toggle handler whose registry mutation fails reverts the switch;
\* the notification of the revert does not start an unbounded chain of
\* mutations and reverts, even if every mutation fails; and when the chain
\* ends the switch shows the registered state.
C34_ToggleChainEnds ==
    /\ ToggleRevertsOnFailure
    /\ (prefs.notified # "none") ~> (prefs.notified = "none")

\* Every thumbnail thread has finished on an Initialized bridge that was
\* given metadata, and the last step met no native failure.
Settled ==
    /\ Initialized /\ workers = <<>> /\ last_push # NoMediaPush
    /\ \A k \in 1..Len(native_calls) : ~native_calls[k].raised
    /\ ~(media_call.op = "thumbnail_worker" /\ native_calls = <<Returned("update")>>)

\* Once the threads have finished, the title, artist and album shown are
\* those the last update_metadata wrote.
PropertiesConverge ==
    Settled => (display.shown # <<>> /\ display.shown[1].props = display.props)

\* C35: once every thumbnail thread has finished, the native surface shows
\* the title, artist, album and thumbnail of the most recent update_metadata:
\* no thumbnail of an earlier call, whether a late thread set it or a call
\* without a thumbnail left it.
C35_DisplayConverges ==
    Settled =>
       display.shown = <<[props |-> display.props, thumbnail |-> last_push]>>

\* No exception leaves a thumbnail thread, and a thread that reads the
\* reference of the bridge after shutdown() finds None and calls nothing.
WorkerContained ==
    /\ media_call.op \in {"worker_resolve", "worker_load", "worker_use"} =>
          media_call.raised = "none"
    /\ (media_call.op = "worker_load" /\ bridge.display_updater = 0) =>
          (native_calls = <<>> /\ (workers = <<>> \/ Head(workers).ref = 0))

\* C36: a thumbnail thread that runs while shutdown() is called makes no
\* call on the native display updater once shutdown() has completed, that
\* is while the bridge holds no updater; and no exception leaves the thread
\* at whatever statement it stands.
C36_WorkerAfterShutdown ==
    /\ [][media_call'.op = "worker_use" => bridge.display_updater # 0]_vars
    /\ [](media_call.op \in {"worker_resolve", "worker_load", "worker_use"} =>
            media_call.raised = "none")

ShowOps == {"show_now_playing", "show_message"}

\* While notifications are disabled or there is no notifier, the two show
\* calls start no thread, return False and keep the remembered track id;
\* and show_now_playing returns True exactly when it started a thread.
DisabledDispatchesNothing ==
    [][(notify_call'.op \in ShowOps /\ toasts' >= toasts) =>
         /\ NotifyReturnsEarly(notifications) =>
               /\ toasts' = toasts
               /\ notify_call'.ret = "False"
               /\ notifications' = notifications
         /\ notify_call'.ret = "True" <=> toasts' = toasts + 1]_vars

\* C37: disabled or without a notifier, show_now_playing and show_message
\* dispatch nothing, return False and keep the remembered track id; a track
\* id is remembered only by a call that dispatched a display; and
\* show_now_playing returns True exactly when it started a dispatch.
C37_RememberedOnlyWhenDispatched ==
    /\ DisabledDispatchesNothing
    /\ [](\/ notifications.last_track_id = last_shown
          \/ (last_shown = NothingShown /\ notifications.last_track_id = NoneId))

\* The positions of the tray calls of the last step that have the name.
CallsNamed(name) == {k \in 1..Len(tray_call.calls) : tray_call.calls[k].name = name}

\* C38: the handler of a menu item calls the callback of that item, once,
\* and no other; the Quit handler stops the icon of the controller before
\* it calls on_quit, calls on_quit once also when the stop fails, and the
\* controller holds no icon when on_quit runs.
C38_MenuInvokesItsCallback ==
    [][tray_call'.op = "menu" =>
         LET cs == tray_call'.calls
             item == tray_call'.arg
             cb(name) == {k \in 1..Len(cs) : cs[k].name = name}
         IN  /\ Cardinality(cb(MenuCallback(item))) = 1
             /\ \A other \in MenuItems \ {item} : cb(MenuCallback(other)) = {}
             /\ cs[Len(cs)].name = MenuCallback(item)
             /\ item # "quit" =>
                   (Len(cs) = 1 /\ tray' = tray /\ icons' = icons)
             /\ item = "quit" =>
                   /\ tray'.icon = 0
                   /\ tray.icon # 0 =>
                         (cs[1] = [name |-> "stop", icon |-> tray.icon] /\ Len(cs) = 2)
                   /\ tray.icon = 0 => Len(cs) = 1
                   /\ (tray.icon # 0 /\ tray_call'.cond = "none") =>
                         icons'[tray.icon].state = "stopped"]_vars

\* Quit was chosen, stopping the icon failed, and on_quit was called with
\* the controller holding no icon.
C38_Witness ==
    /\ tray_call.op = "menu" /\ tray_call.arg = "quit" /\ tray_call.cond = "stop"
    /\ CallsNamed("stop") = {1} /\ CallsNamed("on_quit") = {2}
    /\ tray.icon = 0
    /\ RunningIcons # {}

\* The callback of the last button event raised.
CallbackRaised ==
    /\ media_call.op = "on_button_pressed"
    /\ native_calls # <<>> /\ native_calls[1].raised

\* C39: a callback that raises for a button event lets no exception out of
\* the event handler and leaves the bridge and its listener as they were;
\* the events that follow are delivered and forwarded to their callbacks.
C39_CallbackFailureContained ==
    /\ [][(media_call'.op = "on_button_pressed" /\ Len(events') > Len(events)) =>
            LET cb == ButtonCallback(events'[Len(events')]) IN
            /\ media_call'.raised = "none"
            /\ bridge' = bridge /\ native' = native
            /\ callbacks' = IF cb = "None" THEN callbacks ELSE Append(callbacks, cb)]_vars
    /\ []((CallbackRaised /\ Len(events) < MaxEvents) =>
            ENABLED (\E p \in 1..MaxPlayers : on_button_pressed(p, "next", FALSE)))

\* on_play raised for the second event of an Initialized bridge, which is
\* still Initialized with its listener registered.
C39_Witness ==
    /\ CallbackRaised /\ media_call.raised = "none"
    /\ Initialized /\ native[bridge.smtc].listeners = {bridge.button_pressed_token}
    /\ Len(events) = 2 /\ Len(callbacks) = 2
    /\ callbacks[2] = "on_play"

====
